---- MODULE Spec2Model ----
(***************************************************************************)
(* Topology editor: the in-memory topology (App.tsx), the structural       *)
(* mutators of the controls and property panels, the YAML text editor      *)
(* with its debounce timer (TopologyEditor.tsx) and the drag-release       *)
(* reassignment of sources and sinks (GraphVisualization).                 *)
(*                                                                         *)
(* Strings that the code takes apart (connection addresses, render-entity  *)
(* ids) are sequences of one-character strings, so that split('-') and    *)
(* parseInt are computed as the code computes them.  An optional field is  *)
(* a sequence of length 0 (absent / undefined) or 1 (present).             *)
(***************************************************************************)
EXTENDS Integers, Sequences, FiniteSets, TLC

VARIABLES
    topology,          \* App.tsx: useState<Topology>
    selectedNodeInfo,  \* App.tsx: useState<NodeSelection>
    selectedNode,      \* App.tsx: useState<Node | null>
    editor,            \* TopologyEditor.tsx: the component's state and refs
    timers,            \* pending window.setTimeout callbacks of the editor
    graph,             \* GraphVisualization: render entities of the last effect run
    drag,              \* GraphVisualization: the drag gesture in progress
    alerted,           \* the blocking notification shown by the last handler
    lastOp             \* history: the handler that ran last, with its inputs

vars == <<topology, selectedNodeInfo, selectedNode, editor, timers, graph, drag,
          alerted, lastOp>>

----------------------------------------------------------------------------
(* Bounds *)

MaxSinks == 2       \* sinks in the whole topology
MaxSources == 1     \* physical sources in the whole topology
MaxLinks == 2       \* peer references in the whole topology
MaxEdits == 2       \* text edits, each arming a timer

----------------------------------------------------------------------------
(* Optional values and sequences *)

Absent == <<>>
Some(x) == <<x>>
IsPresent(o) == Len(o) = 1
Get(o) == o[1]

\* Array.prototype.filter((_, i) => i !== k), k a 0-based index
RemoveAt(s, k) ==
    IF k >= 0 /\ k < Len(s) THEN SubSeq(s, 1, k) \o SubSeq(s, k + 2, Len(s)) ELSE s

\* Array.prototype.filter(e => e !== v)
Without(s, v) == SelectSeq(s, LAMBDA e : e # v)

Includes(s, v) == \E j \in 1..Len(s) : s[j] = v

Range(s) == {s[j] : j \in 1..Len(s)}

----------------------------------------------------------------------------
(* Strings *)

Dash == "-"
Digits == <<"0", "1", "2", "3", "4", "5", "6", "7", "8", "9">>
IsDigit(c) == c \in {"0", "1", "2", "3", "4", "5", "6", "7", "8", "9"}
DigitVal(c) == (CHOOSE d \in 1..10 : Digits[d] = c) - 1

NaN == -1   \* fails every `>= 0` test, as NaN does

\* `${n}` for a non-negative integer n
RECURSIVE IntToStr(_)
IntToStr(n) ==
    IF n < 10 THEN <<Digits[n + 1]>>
    ELSE Append(IntToStr(n \div 10), Digits[(n % 10) + 1])

\* `${n}` for any index value the drag code can hold (-1 prints as "-1")
NumToStr(n) == IF n < 0 THEN <<Dash>> \o IntToStr(0 - n) ELSE IntToStr(n)

\* parseInt(s): the leading run of digits, NaN when there is none
\* (an absent segment, undefined, parses to NaN too)
RECURSIVE DigitRun(_, _, _)
DigitRun(s, j, acc) ==
    IF j <= Len(s) /\ IsDigit(s[j]) THEN DigitRun(s, j + 1, acc * 10 + DigitVal(s[j]))
    ELSE IF j = 1 THEN NaN ELSE acc

ParseInt(s) == DigitRun(s, 1, 0)

\* s.split('-'): the pieces between the dashes, k dashes giving k + 1 pieces
Split(s) ==
    LET dashes == {j \in 1..Len(s) : s[j] = Dash}
        n == Cardinality(dashes)
        \* position of the m-th dash; 0 before the first, Len(s) + 1 after the last
        at(m) == IF m = 0 THEN 0
                 ELSE IF m > n THEN Len(s) + 1
                 ELSE CHOOSE j \in dashes : Cardinality({i \in dashes : i < j}) = m - 1
    IN [m \in 1..(n + 1) |-> SubSeq(s, at(m - 1) + 1, at(m) - 1)]

\* parts[k] of a JavaScript array, k 0-based: undefined (Absent) past the end
Part(parts, k) == IF k + 1 <= Len(parts) THEN Some(parts[k + 1]) ELSE Absent

KindStr(kind) ==
    IF kind = "physical" THEN <<"p", "h", "y", "s", "i", "c", "a", "l">>
    ELSE <<"s", "i", "n", "k">>

\* `${connection}-physical-${index}` / `${connection}-sink-${index}`
EntityId(connection, kind, index) ==
    connection \o <<Dash>> \o KindStr(kind) \o <<Dash>> \o NumToStr(index)

----------------------------------------------------------------------------
(* Data model (types.ts) *)

ConnA == <<"a">>
ConnB == <<"b">>
ConnAB == <<"a", "-", "b">>     \* an address with a '-' in it
ConnC == <<"c">>                \* an address no node of Init has
EmptyStr == <<>>

Conns == {ConnA, ConnB, ConnAB, ConnC}

SinkS1 == [name |-> "s1", type |-> "Print"]
SinkS2 == [name |-> "s2", type |-> "File"]
Sinks == {SinkS1, SinkS2}
Sources == {[logical |-> "stream", parserType |-> "CSV", sourceType |-> "File"]}

\* what arr[i] yields past the end of an array, and what push() then stores
Undefined == [undefined |-> TRUE]

Kinds == {"physical", "sink"}

NewNode(connection) ==
    [connection |-> connection, grpc |-> connection, capacity |-> 1,
     links |-> Absent, physical |-> Absent, sinks |-> Absent]

ListOf(node, kind) == IF kind = "physical" THEN node.physical ELSE node.sinks

SetList(node, kind, v) ==
    IF kind = "physical" THEN [node EXCEPT !.physical = v]
    ELSE [node EXCEPT !.sinks = v]

\* the elements of an optional list: none when the field is absent
Items(o) == IF IsPresent(o) THEN Get(o) ELSE <<>>

\* nodes.find(n => n.connection === id): position of the first match, 0 if none
FindNode(nodes, id) ==
    IF \E j \in 1..Len(nodes) : nodes[j].connection = id
    THEN CHOOSE j \in 1..Len(nodes) :
             /\ nodes[j].connection = id
             /\ \A k \in 1..(j - 1) : nodes[k].connection # id
    ELSE 0

RECURSIVE SumLen(_, _, _)
SumLen(nodes, kind, j) ==
    IF j = 0 THEN 0
    ELSE Len(Items(ListOf(nodes[j], kind))) + SumLen(nodes, kind, j - 1)

\* number of entities of a kind in the whole topology
Total(nodes, kind) == SumLen(nodes, kind, Len(nodes))

----------------------------------------------------------------------------
(* YAML text (js-yaml load / dump) and the text editor's state *)

\* A text is what it parses to: the dump of a topology, a hand-written document
\* of a topology (valid YAML that is not dump()'s own formatting), or one of the
\* texts that validation rejects.
DumpText(T) == [kind |-> "dump", doc |-> Some(T)]
HandText(T) == [kind |-> "hand", doc |-> Some(T)]
GarbageText == [kind |-> "garbage", doc |-> Absent]     \* not YAML
ScalarNodesText == [kind |-> "scalarnodes", doc |-> Absent]     \* `nodes: 5`
NoNodesText == [kind |-> "nonodes", doc |-> Absent]     \* a mapping without nodes
EmptyText == [kind |-> "empty", doc |-> Absent]         \* load() returns undefined

\* dump(topology)
Dump(T) == DumpText(T)

NoError == <<>>
MsgYaml == <<"Error parsing YAML:", "bad indentation of a mapping entry">>
MsgMissing == <<"Error parsing YAML:", "Invalid topology format. Must include",
                "nodes", ".">>
MsgUndefined == <<"Error parsing YAML:", "Cannot read properties of undefined (reading",
                  "nodes", ")">>

\* the scalars of a document, each with the type it has in the program: a
\* string of characters, a number by its digits, or null.  A name the model
\* keeps whole (of a sink, a schema, a type) is a string of one piece.
Str(chars) == [type |-> "string", chars |-> chars]
Num(n) == [type |-> "number", chars |-> NumToStr(n)]
Null == [type |-> "null", chars |-> <<>>]

Typed(kind, v) ==
    IF kind = "number" THEN Num(v)
    ELSE IF kind = "name" THEN Str(IF v = "" THEN <<>> ELSE <<v>>)
    ELSE Str(v)

\* a scalar as it stands in the text
Plain(chars) == [style |-> "plain", chars |-> chars]
Quoted(chars) == [style |-> "quoted", chars |-> chars]

IsNumeral(chars) ==
    LET digits == IF Len(chars) > 0 /\ chars[1] = Dash THEN Tail(chars) ELSE chars
    IN Len(digits) > 0 /\ \A k \in 1..Len(digits) : IsDigit(digits[k])

\* load(): a quoted scalar is a string; a plain one is null when it is empty
\* or reads null, a number when it is a numeral, and a string otherwise
Resolved(w) ==
    IF w.style = "quoted" THEN Str(w.chars)
    ELSE IF Len(w.chars) = 0 \/ w.chars = <<"n", "u", "l", "l">> THEN Null
    ELSE IF IsNumeral(w.chars) THEN [type |-> "number", chars |-> w.chars]
    ELSE Str(w.chars)

\* dump() that writes every scalar plain
WrittenPlain(value) ==
    IF value.type = "null" THEN Plain(<<"n", "u", "l", "l">>) ELSE Plain(value.chars)

\* dump(): a string is written plain unless it would be read back as
\* something else than a string, in which case it is quoted
Written(value) ==
    IF value.type = "null" THEN Plain(<<"n", "u", "l", "l">>)
    ELSE IF value.type = "string" /\ Resolved(Plain(value.chars)).type # "string"
    THEN Quoted(value.chars)
    ELSE Plain(value.chars)

\* a value read where the program keeps one of another type: the number or
\* the null is what the field holds from then on
Mistyped(kind, value) ==
    IF kind = "name" THEN "<" \o value.type \o ">"
    ELSE IF kind = "number" THEN NaN
    ELSE <<"<" \o value.type \o ">">> \o value.chars

\* the scalar v of a topology, after dump and load
Reread(kind, v) ==
    LET value == Resolved(Written(Typed(kind, v)))
    IN IF value = Typed(kind, v) THEN v ELSE Mistyped(kind, value)

\* an element of a list that is undefined is written as null and read as null
NullItem == [null |-> TRUE]

RereadList(kind, list) == [k \in 1..Len(list) |-> Reread(kind, list[k])]

RereadOption(kind, o) == IF IsPresent(o) THEN Some(RereadList(kind, Get(o))) ELSE Absent

RereadSource(source) ==
    IF source = Undefined THEN NullItem
    ELSE [logical |-> Reread("name", source.logical),
          parserType |-> Reread("name", source.parserType),
          sourceType |-> Reread("name", source.sourceType)]

RereadSink(sink) ==
    IF sink = Undefined THEN NullItem
    ELSE [name |-> Reread("name", sink.name), type |-> Reread("name", sink.type)]

RereadNode(node) ==
    [connection |-> Reread("string", node.connection),
     grpc |-> Reread("string", node.grpc),
     capacity |-> Reread("number", node.capacity),
     links |-> IF IsPresent(node.links)
               THEN Some([downstreams |-> RereadOption("string", Get(node.links).downstreams),
                          upstreams |-> RereadOption("string", Get(node.links).upstreams)])
               ELSE Absent,
     physical |-> IF IsPresent(node.physical)
                  THEN Some([k \in 1..Len(Get(node.physical)) |->
                                RereadSource(Get(node.physical)[k])])
                  ELSE Absent,
     sinks |-> IF IsPresent(node.sinks)
               THEN Some([k \in 1..Len(Get(node.sinks)) |-> RereadSink(Get(node.sinks)[k])])
               ELSE Absent]

\* load(dump(T)): a key whose value is undefined is not written and is
\* undefined again when read; every scalar is written and resolved
Reloaded(T) ==
    [logical |-> IF IsPresent(T.logical)
                 THEN Some([k \in 1..Len(Get(T.logical)) |->
                               [name |-> Reread("name", Get(T.logical)[k].name),
                                schema |-> Get(T.logical)[k].schema]])
                 ELSE Absent,
     nodes |-> [k \in 1..Len(T.nodes) |-> RereadNode(T.nodes[k])]]

\* a value of `nodes` that is truthy and no list (a number, a text, a
\* mapping), written as a mark in the place of the list
NotAList == <<[notAList |-> TRUE]>>

IsList(v) == v # NotAList

\* the try block shared by validateYaml and updateTopology: load(text), then
\* the `!parsedYaml.nodes` test.  ok, or the message of what was thrown.
Parse(text) ==
    CASE text.kind = "dump" ->
             [ok |-> TRUE, value |-> Some(Reloaded(Get(text.doc))), error |-> NoError]
      [] text.kind = "hand" ->
             [ok |-> TRUE, value |-> text.doc, error |-> NoError]
      [] text.kind = "scalarnodes" ->
             [ok |-> TRUE, value |-> Some([logical |-> Absent, nodes |-> NotAList]),
              error |-> NoError]
      [] text.kind = "garbage" ->
             [ok |-> FALSE, value |-> Absent, error |-> MsgYaml]
      [] text.kind = "empty" ->
             [ok |-> FALSE, value |-> Absent, error |-> MsgUndefined]
      [] OTHER ->
             [ok |-> FALSE, value |-> Absent, error |-> MsgMissing]

NoTimer == 0

Unmounted ==
    [mounted |-> FALSE, yamlText |-> EmptyText, error |-> NoError, isValid |-> TRUE,
     isDirty |-> FALSE, typingTimer |-> NoTimer, lastValidYaml |-> EmptyText]

\* useState / useRef initial values of TopologyEditor
Mounted(T) ==
    [mounted |-> TRUE, yamlText |-> Dump(T), error |-> NoError, isValid |-> TRUE,
     isDirty |-> FALSE, typingTimer |-> NoTimer, lastValidYaml |-> Dump(T)]

\* useEffect(..., [topology, yamlText, isDirty]): run after the render that
\* follows a handler, with the topology T and the editor state ed it left
AfterRender(T, ed) ==
    IF ed.mounted /\ ~ed.isDirty /\ Dump(T) # ed.yamlText
    THEN [ed EXCEPT !.yamlText = Dump(T), !.lastValidYaml = Dump(T),
                    !.isValid = TRUE, !.error = NoError]
    ELSE ed

\* validateYaml without its catch block's setError / setIsValid
ValidateYamlSilent(ed, text) == [ok |-> Parse(text).ok, ed |-> ed]

\* validateYaml(text), on the editor state ed: whether the text passed, and
\* the editor state the catch block leaves when it did not
ValidateYaml(ed, text) ==
    LET p == Parse(text)
    IN IF p.ok THEN [ok |-> TRUE, ed |-> ed]
       ELSE [ok |-> FALSE, ed |-> [ed EXCEPT !.error = p.error, !.isValid = FALSE]]

\* updateTopology without its setIsDirty(false)
UpdateTopologyStaysDirty(ed, text) ==
    LET parsedYaml == Get(Parse(text).value)
    IN [T |-> [logical |-> parsedYaml.logical, nodes |-> parsedYaml.nodes],
        ed |-> [ed EXCEPT !.error = NoError, !.isValid = TRUE,
                          !.lastValidYaml = text]]

\* updateTopology(text), for a text that validateYaml passed: the topology it
\* hands to setTopology and the editor state it leaves
UpdateTopology(ed, text) ==
    LET parsedYaml == Get(Parse(text).value)
    IN [T |-> [logical |-> parsedYaml.logical, nodes |-> parsedYaml.nodes],
        ed |-> [ed EXCEPT !.error = NoError, !.isValid = TRUE, !.isDirty = FALSE,
                          !.lastValidYaml = text]]

\* `if (validateYaml(text)) { updateTopology(text) }`: the body of the debounce
\* timer's callback and of handleImport, on the topology T and editor state ed
Validated(T, ed, text) ==
    LET v == ValidateYaml(ed, text)
    IN IF v.ok THEN UpdateTopology(ed, text) ELSE [T |-> T, ed |-> v.ed]

\* handleTextChange without its clearTimeout: the earlier timer stays armed
NotCleared(pending, typingTimer) == pending

\* `if (typingTimer) window.clearTimeout(typingTimer)`: a timer that has fired
\* already is not among the pending ones, and clearing it does nothing
Cleared(pending, typingTimer) == {t \in pending : t.id # typingTimer}

\* handleExport that only offers the download
ExportedDownloadOnly(T, ed) == ed

\* handleExport: the editor state it leaves (the download changes nothing)
Exported(T, ed) ==
    [ed EXCEPT !.yamlText = Dump(T), !.error = NoError, !.isValid = TRUE,
               !.isDirty = FALSE, !.lastValidYaml = Dump(T)]

\* handleReset
ResetToValid(ed) ==
    [ed EXCEPT !.yamlText = ed.lastValidYaml, !.isValid = TRUE, !.error = NoError,
               !.isDirty = FALSE]

----------------------------------------------------------------------------
(* App.tsx: sources and sinks of a node *)

NoSelection == <<>>     \* NodeSelection null
NoNode == <<>>          \* selectedNode null
NoAlert == <<>>

\* History of the last handler: its name, how its request stands to the
\* topology it met ("valid", or the way it is not), and the request itself.
\* Only a valid request is kept in full; the others are told apart by case.
Op(name, case, a, b, kind, index, item) ==
    IF case = "valid"
    THEN [op |-> name, case |-> case, a |-> a, b |-> b, kind |-> kind,
          index |-> index, item |-> item]
    ELSE [op |-> name, case |-> case, a |-> EmptyStr, b |-> EmptyStr, kind |-> kind,
          index |-> 0, item |-> Absent]

\* the map() of the add handlers putting the new element in front
AddedNodesInFront(nodes, nodeId, kind, item) ==
    [j \in 1..Len(nodes) |->
        IF nodes[j].connection = nodeId
        THEN SetList(nodes[j], kind, Some(<<item>> \o Items(ListOf(nodes[j], kind))))
        ELSE nodes[j]]

\* handleAddSource / handleAddSink: topology.nodes.map(...), every node whose
\* connection is nodeId gets the entity appended
AddedNodes(nodes, nodeId, kind, item) ==
    [j \in 1..Len(nodes) |->
        IF nodes[j].connection = nodeId
        THEN SetList(nodes[j], kind, Some(Append(Items(ListOf(nodes[j], kind)), item)))
        ELSE nodes[j]]

\* the NodeSelection that handleAddSource / handleAddSink build for the new entity
EntitySelection(kind, parentId, index, name) ==
    Some([type |-> kind, nodeId |-> EntityId(parentId, kind, index),
          parentId |-> parentId, name |-> name, index |-> index])

EntityName(kind, item) == IF kind = "physical" THEN item.logical ELSE item.name

\* handleAddSource(nodeId, source) / handleAddSink(nodeId, sink)
AddEntity(nodeId, kind, item) ==
    LET updatedNodes == AddedNodes(topology.nodes, nodeId, kind, item)
        refresh == IsPresent(selectedNode) /\ Get(selectedNode).connection = nodeId
        k == FindNode(updatedNodes, nodeId)
    IN /\ topology' = [topology EXCEPT !.nodes = updatedNodes]
       /\ selectedNode' = IF refresh /\ k # 0 THEN Some(updatedNodes[k]) ELSE selectedNode
       /\ selectedNodeInfo' =
              IF refresh /\ k # 0 /\ IsPresent(ListOf(updatedNodes[k], kind))
              THEN LET list == Get(ListOf(updatedNodes[k], kind))
                   IN EntitySelection(kind, nodeId, Len(list) - 1,
                                      EntityName(kind, list[Len(list)]))
              ELSE selectedNodeInfo
       /\ editor' = AfterRender(topology', editor)
       /\ alerted' = NoAlert
       /\ UNCHANGED timers

\* the removal without its normalisation: the emptied list stays on the node
RemovedNodesKeepEmpty(nodes, nodeId, kind, index) ==
    [j \in 1..Len(nodes) |->
        IF nodes[j].connection = nodeId /\ IsPresent(ListOf(nodes[j], kind))
        THEN SetList(nodes[j], kind,
                     Some(RemoveAt(Get(ListOf(nodes[j], kind)), index)))
        ELSE nodes[j]]

\* handleRemoveSource / handleRemoveSink: filter((_, index) => index !== i),
\* `length ? list : undefined`
RemovedNodes(nodes, nodeId, kind, index) ==
    [j \in 1..Len(nodes) |->
        IF nodes[j].connection = nodeId /\ IsPresent(ListOf(nodes[j], kind))
        THEN LET list == RemoveAt(Get(ListOf(nodes[j], kind)), index)
             IN SetList(nodes[j], kind, IF Len(list) # 0 THEN Some(list) ELSE Absent)
        ELSE nodes[j]]

\* handleRemoveSource(nodeId, sourceIndex) / handleRemoveSink(nodeId, indexToRemove)
RemoveEntity(nodeId, kind, index) ==
    LET updatedNodes == RemovedNodes(topology.nodes, nodeId, kind, index)
        sel == selectedNodeInfo
    IN /\ topology' = [topology EXCEPT !.nodes = updatedNodes]
       /\ selectedNodeInfo' =
              IF /\ IsPresent(sel) /\ Get(sel).type = kind
                 /\ Get(sel).parentId = nodeId /\ Get(sel).index = index
              THEN NoSelection ELSE sel
       /\ editor' = AfterRender(topology', editor)
       /\ alerted' = NoAlert
       /\ UNCHANGED <<selectedNode, timers>>

----------------------------------------------------------------------------
(* App.tsx: stableNodeReassignHandler *)

\* const [sourceMainNodeId, nodeCategory, index] = sourceNodeId.split('-');
\* const sourceIndex = parseInt(index);
Decoded(sourceNodeId) ==
    LET parts == Split(sourceNodeId)
        index == Part(parts, 2)
    IN [sourceMainNodeId |-> parts[1],
        sourceIndex |-> IF IsPresent(index) THEN ParseInt(Get(index)) ELSE NaN]

DecodedOwner(sourceNodeId) == Decoded(sourceNodeId).sourceMainNodeId
DecodedIndex(sourceNodeId) == Decoded(sourceNodeId).sourceIndex

\* arr[i] of a JavaScript array, i 0-based
At(list, i) == IF i >= 0 /\ i < Len(list) THEN list[i + 1] ELSE Undefined

\* the move with the owner built anew from its connection and its shortened
\* list: the owner's list of the other kind is not carried over
MovedNodesOwnerRebuilt(nodes, s, t, kind, sourceIndex) ==
    LET list == Get(ListOf(nodes[s], kind))
        toMove == At(list, sourceIndex)
        rest == RemoveAt(list, sourceIndex)
        nodes1 == [nodes EXCEPT ![s] =
                      SetList(NewNode(@.connection), kind,
                              IF Len(rest) = 0 THEN Absent ELSE Some(rest))]
    IN [nodes1 EXCEPT ![t] =
           SetList(@, kind, Some(Append(Items(ListOf(nodes1[t], kind)), toMove)))]

\* The two branches of the handler, which differ in the field only: the entity
\* at sourceIndex leaves the owner's list (the field is deleted when the list
\* gets empty) and is pushed onto the target's list, created when missing.
\* The node objects are changed in place, the owner first.
MovedNodes(nodes, s, t, kind, sourceIndex) ==
    LET list == Get(ListOf(nodes[s], kind))
        toMove == At(list, sourceIndex)
        rest == RemoveAt(list, sourceIndex)
        nodes1 == [nodes EXCEPT ![s] =
                      SetList(@, kind, IF Len(rest) = 0 THEN Absent ELSE Some(rest))]
    IN [nodes1 EXCEPT ![t] =
           SetList(@, kind, Some(Append(Items(ListOf(nodes1[t], kind)), toMove)))]

\* what the handler does with event.detail = {sourceNodeId, targetNodeId, nodeType}
\* on the topology of topologyRef.current:
\* changed (setTopology was called), moved (a branch ran), nodes (the result)
Reassigned(nodes, sourceNodeId, targetNodeId, nodeType) ==
    LET decoded == Decoded(sourceNodeId)
        s == FindNode(nodes, decoded.sourceMainNodeId)
        t == FindNode(nodes, targetNodeId)
        sourceIndex == decoded.sourceIndex
    IN IF sourceNodeId = EmptyStr \/ targetNodeId = EmptyStr \/ s = 0 \/ t = 0
       THEN [changed |-> FALSE, moved |-> FALSE, nodes |-> nodes]
       ELSE IF IsPresent(ListOf(nodes[s], nodeType)) /\ sourceIndex >= 0
       THEN [changed |-> TRUE, moved |-> TRUE,
             nodes |-> MovedNodes(nodes, s, t, nodeType, sourceIndex)]
       ELSE [changed |-> TRUE, moved |-> FALSE, nodes |-> nodes]

\* the nodeReassign listener
NodeReassign(sourceNodeId, targetNodeId, nodeType) ==
    LET r == Reassigned(topology.nodes, sourceNodeId, targetNodeId, nodeType)
    IN /\ topology' = [topology EXCEPT !.nodes = r.nodes]
       /\ selectedNodeInfo' = IF r.moved THEN NoSelection ELSE selectedNodeInfo
       /\ editor' = AfterRender(topology', editor)
       /\ alerted' = NoAlert
       /\ UNCHANGED <<selectedNode, timers>>

----------------------------------------------------------------------------
(* TopologyControls: links between nodes, node deletion *)

LinkTypes == {"downstream", "upstream"}

NoLinks == [downstreams |-> Absent, upstreams |-> Absent]

\* node.links || {}
LinksOf(node) == IF IsPresent(node.links) THEN Get(node.links) ELSE NoLinks

\* node.links?.downstreams / node.links?.upstreams
Peers(node, type) ==
    IF type = "downstream" THEN LinksOf(node).downstreams ELSE LinksOf(node).upstreams

\* {...node, links: {...links, downstreams: v}} / {... upstreams: v}
SetPeers(node, links, type, v) ==
    [node EXCEPT !.links =
        Some(IF type = "downstream" THEN [links EXCEPT !.downstreams = v]
             ELSE [links EXCEPT !.upstreams = v])]

\* what alert() is given, as the words of the message that tell it apart
MsgNoSource == <<"Source", "node", "does", "not", "exist">>
MsgNoTarget == <<"Target", "node", "does", "not", "exist">>
MsgHasLink(type) == <<"already", "has", "as", type>>

\* the link is added without looking for it in the list first
LinkedUnchecked(node, type, peer) ==
    [alert |-> NoAlert,
     node |-> SetPeers(node, LinksOf(node), type,
                       Some(Append(Items(Peers(node, type)), peer)))]

\* the body of the map() callback of handleAddLink for the node that gets the
\* link: an alert and the node itself when the peer is in the list already,
\* the node with the peer appended otherwise
Linked(node, type, peer) ==
    IF Includes(Items(Peers(node, type)), peer)
    THEN [alert |-> Some(MsgHasLink(type)), node |-> node]
    ELSE [alert |-> NoAlert,
          node |-> SetPeers(node, LinksOf(node), type,
                            Some(Append(Items(Peers(node, type)), peer)))]

\* handleAddLink on (newLinkSource, newLinkTarget, newLinkType):
\* changed (onTopologyChange was called), alert (the last alert raised), nodes
AddedLink(nodes, newLinkSource, newLinkTarget, newLinkType) ==
    LET holder == IF newLinkType = "downstream" THEN newLinkSource ELSE newLinkTarget
        peer == IF newLinkType = "downstream" THEN newLinkTarget ELSE newLinkSource
        k == FindNode(nodes, holder)
    IN IF newLinkSource = EmptyStr \/ newLinkTarget = EmptyStr
       THEN [changed |-> FALSE, alert |-> NoAlert, nodes |-> nodes]
       ELSE IF FindNode(nodes, newLinkSource) = 0
       THEN [changed |-> FALSE, alert |-> Some(MsgNoSource), nodes |-> nodes]
       ELSE IF FindNode(nodes, newLinkTarget) = 0
       THEN [changed |-> FALSE, alert |-> Some(MsgNoTarget), nodes |-> nodes]
       ELSE [changed |-> TRUE,
             alert |-> Linked(nodes[k], newLinkType, peer).alert,
             nodes |-> [nodes EXCEPT ![k] = Linked(nodes[k], newLinkType, peer).node]]

\* handleDeleteNode, the callback of updatedNodes.map: both scrubs start from
\* node.links, so the one of the upstreams replaces the one of the downstreams
CleanedNode(node, connection) ==
    LET links == LinksOf(node)
        down == Items(links.downstreams)
        up == Items(links.upstreams)
        node1 == IF Includes(down, connection)
                 THEN SetPeers(node, links, "downstream", Some(Without(down, connection)))
                 ELSE node
    IN IF Includes(up, connection)
       THEN SetPeers(node1, links, "upstream", Some(Without(up, connection)))
       ELSE node1

\* topology.nodes.filter(node => node.connection !== connection)
NodesWithout(nodes, connection) == SelectSeq(nodes, LAMBDA n : n.connection # connection)

\* handleDeleteNode(connection), once confirmed
CleanedNodes(nodes, connection) ==
    LET updatedNodes == NodesWithout(nodes, connection)
    IN [j \in 1..Len(updatedNodes) |-> CleanedNode(updatedNodes[j], connection)]

\* handleDeleteLink(source, target, type), once confirmed
UnlinkedNodes(nodes, source, target, type) ==
    LET holder == IF type = "downstream" THEN source ELSE target
        peer == IF type = "downstream" THEN target ELSE source
    IN [j \in 1..Len(nodes) |->
           IF nodes[j].connection = holder /\ IsPresent(Peers(nodes[j], type))
           THEN SetPeers(nodes[j], LinksOf(nodes[j]), type,
                         Some(Without(Get(Peers(nodes[j], type)), peer)))
           ELSE nodes[j]]

\* generateLinksList, the downstream links of a node
DownLinks(node) ==
    {[source |-> node.connection, target |-> t, type |-> "downstream"] :
        t \in Range(Items(Peers(node, "downstream")))}

\* generateLinksList, the upstream links of a node: those that are not the
\* downstream link of the node at the other end
UpLinks(nodes, node) ==
    {[source |-> u, target |-> node.connection, type |-> "upstream"] :
        u \in {v \in Range(Items(Peers(node, "upstream"))) :
                 ~\E k \in 1..Len(nodes) :
                     /\ nodes[k].connection = v
                     /\ Includes(Items(Peers(nodes[k], "downstream")), node.connection)}}

\* generateLinksList: the links the panel lists, each with a Delete button
LinksList(nodes) ==
    UNION {DownLinks(nodes[j]) \cup UpLinks(nodes, nodes[j]) : j \in 1..Len(nodes)}

----------------------------------------------------------------------------
(* GraphVisualization: render entities and the drag gesture *)

CaptureRadius == 50     \* dragended: `distance < 50`
MainSpacing == 150      \* settled distance of two processing nodes (collide radius 70)
LinkDistance == 80      \* forceLink distance of an ownership link

\* Where the simulation has settled a processing node: the nodes of the model
\* lie on a line, MainSpacing apart, in the order of their addresses below.
ConnRank(connection) ==
    CASE connection = ConnA -> 0
      [] connection = ConnB -> 1
      [] connection = ConnAB -> 2
      [] OTHER -> 3

MainPos(connection) == <<ConnRank(connection) * MainSpacing, 0>>

\* a source or sink at rest hangs off its owner at the link distance
RestPos(connection) == <<MainPos(connection)[1], LinkDistance>>

MainEntity(node) ==
    [id |-> node.connection, nodeType |-> "main", connection |-> node.connection,
     parentId |-> Absent, parentIndex |-> Absent, pos |-> MainPos(node.connection)]

\* `Source ${index + 1}` / `Sink ${index + 1}`, for the positions a list can have
Numbered(kind, index) ==
    IF kind = "physical"
    THEN (IF index = 0 THEN "Source 1" ELSE IF index = 1 THEN "Source 2" ELSE "Source 3")
    ELSE (IF index = 0 THEN "Sink 1" ELSE IF index = 1 THEN "Sink 2" ELSE "Sink 3")

\* source.logical || `Source ${index + 1}`, sink.name || `Sink ${index + 1}`
Label(kind, item, index) ==
    IF EntityName(kind, item) = "" THEN Numbered(kind, index)
    ELSE EntityName(kind, item)

\* node.physical.forEach / node.sinks.forEach: one entity per element, its id
\* built from the owner's address, the kind and the position in the list
OwnedEntities(node, kind) ==
    LET list == Items(ListOf(node, kind))
    IN [j \in 1..Len(list) |->
           [id |-> EntityId(node.connection, kind, j - 1), nodeType |-> kind,
            connection |-> Label(kind, list[j], j - 1),
            parentId |-> Some(node.connection), parentIndex |-> Some(j - 1),
            pos |-> RestPos(node.connection)]]

\* `source.logical` / `sink.name` of an undefined or null element throws a TypeError in
\* the render effect, and so does `topology.nodes.forEach` of a value that is
\* no list: either takes the whole component tree down
RenderThrows(T) ==
    IF ~IsList(T.nodes) THEN TRUE
    ELSE
    \E j \in 1..Len(T.nodes), kind \in Kinds :
        \/ Includes(Items(ListOf(T.nodes[j], kind)), Undefined)
        \/ Includes(Items(ListOf(T.nodes[j], kind)), NullItem)

RECURSIVE Derived(_, _)
Derived(nodes, j) ==
    IF j = 0 THEN <<>>
    ELSE Derived(nodes, j - 1) \o <<MainEntity(nodes[j])>>
         \o OwnedEntities(nodes[j], "physical") \o OwnedEntities(nodes[j], "sink")

\* node.links.downstreams.forEach of the nodes up to the j-th: one link each
RECURSIVE DownstreamLinks(_, _)
DownstreamLinks(nodes, j) ==
    IF j = 0 THEN <<>>
    ELSE LET down == Items(Peers(nodes[j], "downstream"))
         IN DownstreamLinks(nodes, j - 1)
            \o [i \in 1..Len(down) |->
                   [source |-> nodes[j].connection, target |-> down[i],
                    direction |-> "downstream"]]

\* the entries node.links.upstreams.forEach visits, node after node
RECURSIVE UpstreamEntries(_, _)
UpstreamEntries(nodes, j) ==
    IF j = 0 THEN <<>>
    ELSE LET up == Items(Peers(nodes[j], "upstream"))
         IN UpstreamEntries(nodes, j - 1)
            \o [i \in 1..Len(up) |->
                   [source |-> up[i], target |-> nodes[j].connection,
                    direction |-> "upstream"]]

\* every upstream entry is pushed, also when mainLinks has its link already
RECURSIVE PushedAll(_, _, _)
PushedAll(mainLinks, entries, i) ==
    IF i > Len(entries) THEN mainLinks
    ELSE PushedAll(Append(mainLinks, entries[i]), entries, i + 1)

\* mainLinks.find(link => link.source === sourceId && link.target ===
\* node.connection) for each upstream entry from the i-th on: pushed only
\* when mainLinks has no link with these ends yet
RECURSIVE Pushed(_, _, _)
Pushed(mainLinks, entries, i) ==
    IF i > Len(entries) THEN mainLinks
    ELSE Pushed(IF \E l \in 1..Len(mainLinks) :
                      /\ mainLinks[l].source = entries[i].source
                      /\ mainLinks[l].target = entries[i].target
                THEN mainLinks
                ELSE Append(mainLinks, entries[i]),
                entries, i + 1)

\* mainLinks: the downstream links of all nodes, then the upstream ones
MainLinks(nodes) ==
    LET entries == UpstreamEntries(nodes, Len(nodes))
    IN Pushed(DownstreamLinks(nodes, Len(nodes)), entries, 1)

\* additionalLinks: source -> owner for each source, owner -> sink for each
\* sink, in the order of the nodes
RECURSIVE AdditionalLinks(_, _)
AdditionalLinks(nodes, j) ==
    IF j = 0 THEN <<>>
    ELSE LET physical == Items(ListOf(nodes[j], "physical"))
             sinks == Items(ListOf(nodes[j], "sink"))
         IN AdditionalLinks(nodes, j - 1)
            \o [i \in 1..Len(physical) |->
                   [source |-> EntityId(nodes[j].connection, "physical", i - 1),
                    target |-> nodes[j].connection, direction |-> "physical"]]
            \o [i \in 1..Len(sinks) |->
                   [source |-> nodes[j].connection,
                    target |-> EntityId(nodes[j].connection, "sink", i - 1),
                    direction |-> "sink"]]

\* the effect of GraphVisualization on [topology, onNodeSelect]: it returns
\* early, leaving the previous render, when the topology has no node
Regenerated(T, g) ==
    IF Len(T.nodes) = 0 \/ RenderThrows(T) THEN g
    ELSE [nodes |-> Derived(T.nodes, Len(T.nodes)),
          links |-> MainLinks(T.nodes) \o AdditionalLinks(T.nodes, Len(T.nodes))]

NoDrag == <<>>

\* the effect's cleanup stops the simulation of the render a gesture started in
Detached(dr) == IF IsPresent(dr) THEN Some([Get(dr) EXCEPT !.live = FALSE]) ELSE dr

Dist2(p, q) == (p[1] - q[1]) * (p[1] - q[1]) + (p[2] - q[2]) * (p[2] - q[2])

\* Math.sqrt(dx * dx + dy * dy) < 50
Within(p, q) == Dist2(p, q) < CaptureRadius * CaptureRadius

\* dragended, lines 912-970: the main nodes of the gesture's render in order,
\* the owner (as d.id.split("-")[0] names it) skipped, the first one within
\* the radius taken.  The request, or Absent when no node captures.
Request(d, pos, nodes) ==
    LET originalParentId == Split(d.id)[1]
        hits == {j \in 1..Len(nodes) :
                    /\ nodes[j].nodeType = "main"
                    /\ nodes[j].id # originalParentId
                    /\ Within(nodes[j].pos, pos)}
        indexValue ==
            IF IsPresent(d.parentIndex) THEN Get(d.parentIndex)
            ELSE IF Len(Split(d.id)) >= 3 THEN ParseInt(Split(d.id)[3]) ELSE -1
    IN IF d.nodeType \in Kinds /\ hits # {}
       THEN LET first == CHOOSE j \in hits : \A k \in hits : j <= k
            IN Some([sourceNodeId |->
                         originalParentId \o <<Dash>> \o KindStr(d.nodeType)
                         \o <<Dash>> \o NumToStr(indexValue),
                     targetNodeId |-> nodes[first].id,
                     nodeType |-> d.nodeType])
       ELSE Absent

----------------------------------------------------------------------------
(* Actions on sources and sinks *)

\* the application is up: no render has thrown
Alive == ~RenderThrows(topology)

MaxOf(kind) == IF kind = "physical" THEN MaxSources ELSE MaxSinks
ItemsOf(kind) == IF kind = "physical" THEN Sources ELSE Sinks

Exists(nodes, id) == FindNode(nodes, id) # 0

\* the list of a kind of the node an address names
ListAt(nodes, id, kind) == Items(ListOf(nodes[FindNode(nodes, id)], kind))

\* the indices a request is tried with: every position of the list the address
\* names, and the first one past its end
Indices(nodes, id, kind) ==
    0..(IF Exists(nodes, id) THEN Len(ListAt(nodes, id, kind)) ELSE 0)

\* index is a position of the list of that kind of the node ownerId names
InRange(nodes, ownerId, kind, index) ==
    /\ Exists(nodes, ownerId)
    /\ index >= 0
    /\ index < Len(ListAt(nodes, ownerId, kind))

ReassignCase(nodes, ownerId, targetOwnerId, kind, index) ==
    IF ~Exists(nodes, ownerId) \/ ~Exists(nodes, targetOwnerId) THEN "missing"
    ELSE IF ~InRange(nodes, ownerId, kind, index) THEN "range"
    ELSE IF ownerId = targetOwnerId THEN "self"
    ELSE "valid"

Add(kind) ==
    /\ Alive
    /\ Total(topology.nodes, kind) < MaxOf(kind)
    /\ \E nodeId \in Conns, item \in ItemsOf(kind) :
           /\ AddEntity(nodeId, kind, item)
           /\ lastOp' = Op("add",
                           IF Exists(topology.nodes, nodeId) THEN "valid" ELSE "missing",
                           nodeId, EmptyStr, kind, 0, Some(item))

Remove(kind) ==
    /\ Alive
    /\ \E nodeId \in Conns :
         \E index \in Indices(topology.nodes, nodeId, kind) :
           /\ RemoveEntity(nodeId, kind, index)
           /\ lastOp' = Op("remove",
                           IF InRange(topology.nodes, nodeId, kind, index) THEN "valid"
                           ELSE "range",
                           nodeId, EmptyStr, kind, index, Absent)

\* a nodeReassign event for reassign(ownerId, targetOwnerId, kind, index), its
\* detail built as dragended builds it
ReassignRequest ==
    /\ Alive
    /\ \E ownerId \in Conns, targetOwnerId \in Conns, kind \in Kinds :
           \E index \in Indices(topology.nodes, ownerId, kind) :
               /\ NodeReassign(EntityId(ownerId, kind, index), targetOwnerId, kind)
               /\ lastOp' = Op("reassign",
                               ReassignCase(topology.nodes, ownerId, targetOwnerId,
                                            kind, index),
                               ownerId, targetOwnerId, kind, index, Absent)

AddSource == Add("physical") /\ UNCHANGED <<graph, drag>>
AddSink == Add("sink") /\ UNCHANGED <<graph, drag>>
RemoveSource == Remove("physical") /\ UNCHANGED <<graph, drag>>
RemoveSink == Remove("sink") /\ UNCHANGED <<graph, drag>>
Reassign == ReassignRequest /\ UNCHANGED <<graph, drag>>

InitNodes == <<NewNode(ConnA), NewNode(ConnB), NewNode(ConnAB)>>

NoOp == Op("init", "none", EmptyStr, EmptyStr, "sink", 0, Absent)

NoTimers == [pending |-> {}, next |-> 1]

NoGraph == [nodes |-> <<>>, links |-> <<>>]

\* the entity model on its own: the editor is hidden (showTopologyEditor is
\* false by default) and nothing is selected or dragged
Init ==
    /\ topology = [logical |-> Absent, nodes |-> InitNodes]
    /\ selectedNodeInfo = NoSelection
    /\ selectedNode = NoNode
    /\ editor = Unmounted
    /\ timers = NoTimers
    /\ graph = NoGraph
    /\ drag = NoDrag
    /\ alerted = NoAlert
    /\ lastOp = NoOp

Next ==
    \/ AddSource
    \/ AddSink
    \/ RemoveSource
    \/ RemoveSink
    \/ Reassign

Spec == Init /\ [][Next]_vars

----------------------------------------------------------------------------
(* Actions on links and nodes *)

RECURSIVE SumLinks(_, _)
SumLinks(nodes, j) ==
    IF j = 0 THEN 0
    ELSE Len(Items(Peers(nodes[j], "downstream"))) + Len(Items(Peers(nodes[j], "upstream")))
         + SumLinks(nodes, j - 1)

\* number of peer references in the whole topology
TotalLinks(nodes) == SumLinks(nodes, Len(nodes))

\* what the two selects of the add-link form can hold: nothing, or a node that
\* was offered, whether or not it is still there
Selectable == {EmptyStr} \cup {InitNodes[j].connection : j \in 1..Len(InitNodes)}

LinkCase(nodes, source, target, type) ==
    IF source = EmptyStr \/ target = EmptyStr THEN "empty"
    ELSE IF ~Exists(nodes, source) \/ ~Exists(nodes, target) THEN "missing"
    ELSE IF Includes(Items(Peers(nodes[FindNode(nodes, IF type = "downstream" THEN source
                                                          ELSE target)], type)),
                     IF type = "downstream" THEN target ELSE source)
    THEN "duplicate"
    ELSE "valid"

\* the Add button of the add-link form
AddLinkRequest ==
    \E newLinkSource \in Selectable, newLinkTarget \in Selectable, newLinkType \in LinkTypes :
        LET r == AddedLink(topology.nodes, newLinkSource, newLinkTarget, newLinkType)
            case == LinkCase(topology.nodes, newLinkSource, newLinkTarget, newLinkType)
        IN /\ case = "valid" => TotalLinks(topology.nodes) < MaxLinks
           /\ topology' = [topology EXCEPT !.nodes = r.nodes]
           /\ alerted' = r.alert
           /\ editor' = AfterRender(topology', editor)
           /\ lastOp' = Op("addLink", case, newLinkSource, newLinkTarget, newLinkType,
                           0, Absent)
           /\ UNCHANGED <<selectedNodeInfo, selectedNode, timers>>

AddLink == AddLinkRequest /\ UNCHANGED <<graph, drag>>

\* the Delete button of a node of the list, window.confirm answered either way
DeleteNodeRequest ==
    \E j \in 1..Len(topology.nodes), confirmed \in BOOLEAN :
        LET connection == topology.nodes[j].connection
        IN /\ topology' = IF confirmed
                          THEN [topology EXCEPT !.nodes = CleanedNodes(@, connection)]
                          ELSE topology
           /\ alerted' = NoAlert
           /\ editor' = AfterRender(topology', editor)
           /\ lastOp' = Op("deleteNode", IF confirmed THEN "valid" ELSE "cancelled",
                           connection, EmptyStr, "node", 0, Absent)
           /\ UNCHANGED <<selectedNodeInfo, selectedNode, timers>>

DeleteNode == DeleteNodeRequest /\ UNCHANGED <<graph, drag>>

\* the Delete button of a link of the list, window.confirm answered either way
DeleteLinkRequest ==
    \E link \in LinksList(topology.nodes), confirmed \in BOOLEAN :
        /\ topology' = IF confirmed
                       THEN [topology EXCEPT !.nodes =
                                UnlinkedNodes(@, link.source, link.target, link.type)]
                       ELSE topology
        /\ alerted' = NoAlert
        /\ editor' = AfterRender(topology', editor)
        /\ lastOp' = Op("deleteLink", IF confirmed THEN "done" ELSE "cancelled",
                        link.source, link.target, link.type, 0, Absent)
        /\ UNCHANGED <<selectedNodeInfo, selectedNode, timers>>

DeleteLink == DeleteLinkRequest /\ UNCHANGED <<graph, drag>>

NextLinks ==
    \/ AddLink
    \/ DeleteNode
    \/ DeleteLink

SpecLinks == Init /\ [][NextLinks]_vars

----------------------------------------------------------------------------
(* Actions of the text editor *)

\* the documents a user turns the shown one into: the same topology written by
\* hand, one with the first sink of a node deleted, one with a node deleted
Edits(T) ==
    {T}
    \cup {[T EXCEPT !.nodes = RemovedNodes(@, T.nodes[j].connection, "sink", 0)] :
            j \in 1..Len(T.nodes)}
    \cup {[T EXCEPT !.nodes = NodesWithout(@, T.nodes[j].connection)] :
            j \in 1..Len(T.nodes)}

\* what a change event can carry
TypedTexts(T) ==
    {GarbageText, NoNodesText, EmptyText, ScalarNodesText} \cup {HandText(D) : D \in Edits(T)}

\* history of an editor handler
EditOp(name, case) == Op(name, case, EmptyStr, EmptyStr, "text", 0, Absent)

\* how validation takes a text: accepted, or rejected as the kind of text it is
Verdict(text) == IF Parse(text).ok THEN "accepted" ELSE text.kind

\* the state of the editor's machine: invalid, dirty (typing) or clean
EditorState(ed) == IF ~ed.isValid THEN "invalid" ELSE IF ed.isDirty THEN "dirty" ELSE "clean"

\* handleTextChange: the text and the dirty flag are set, the timer of the
\* previous change is cleared and a new one armed with the new text
TextChanged(texts) ==
    /\ Alive
    /\ editor.mounted
    /\ timers.next <= MaxEdits
    /\ \E newText \in texts :
           /\ editor' = AfterRender(topology,
                            [editor EXCEPT !.yamlText = newText, !.isDirty = TRUE,
                                           !.typingTimer = timers.next])
           /\ timers' = [pending |-> Cleared(timers.pending, editor.typingTimer)
                                       \cup {[id |-> timers.next, text |-> newText]},
                         next |-> timers.next + 1]
           /\ lastOp' = EditOp("textChange",
                               IF timers.pending = {} THEN "armed" ELSE "rearmed")
    /\ alerted' = NoAlert
    /\ UNCHANGED <<topology, selectedNodeInfo, selectedNode>>

\* a pending debounce timer fires: its callback runs on the text it was armed with
TimerFired ==
    /\ Alive
    /\ \E t \in timers.pending :
           LET r == Validated(topology, editor, t.text)
           IN /\ timers' = [timers EXCEPT !.pending = @ \ {t}]
              /\ topology' = r.T
              /\ editor' = AfterRender(r.T, r.ed)
              /\ lastOp' = EditOp("timer", Verdict(t.text))
    /\ alerted' = NoAlert
    /\ UNCHANGED <<selectedNodeInfo, selectedNode>>

\* handleImport: the Import YAML button, on the text shown
Imported ==
    /\ Alive
    /\ editor.mounted
    /\ LET r == Validated(topology, editor, editor.yamlText)
       IN /\ topology' = r.T
          /\ editor' = AfterRender(r.T, r.ed)
          /\ lastOp' = EditOp("import", Verdict(editor.yamlText))
    /\ alerted' = NoAlert
    /\ UNCHANGED <<selectedNodeInfo, selectedNode, timers>>

\* handleExport: the Export YAML button
ExportClicked ==
    /\ Alive
    /\ editor.mounted
    /\ editor' = AfterRender(topology, Exported(topology, editor))
    /\ lastOp' = EditOp("export", EditorState(editor))
    /\ alerted' = NoAlert
    /\ UNCHANGED <<topology, selectedNodeInfo, selectedNode, timers>>

\* handleReset: the button is rendered only when !isValid
ResetClicked ==
    /\ Alive
    /\ editor.mounted
    /\ ~editor.isValid
    /\ editor' = AfterRender(topology, ResetToValid(editor))
    /\ lastOp' = EditOp("reset", EditorState(editor))
    /\ alerted' = NoAlert
    /\ UNCHANGED <<topology, selectedNodeInfo, selectedNode, timers>>

TextChange == TextChanged(TypedTexts(topology)) /\ UNCHANGED <<graph, drag>>
TimerFire == TimerFired /\ UNCHANGED <<graph, drag>>
Import == Imported /\ UNCHANGED <<graph, drag>>
Export == ExportClicked /\ UNCHANGED <<graph, drag>>
Reset == ResetClicked /\ UNCHANGED <<graph, drag>>

\* the editor is shown (the Show YAML Editor button) over a topology of one node
InitEditor ==
    /\ topology = [logical |-> Absent, nodes |-> <<NewNode(ConnA)>>]
    /\ selectedNodeInfo = NoSelection
    /\ selectedNode = NoNode
    /\ editor = Mounted(topology)
    /\ timers = NoTimers
    /\ graph = NoGraph
    /\ drag = NoDrag
    /\ alerted = NoAlert
    /\ lastOp = NoOp

\* the editor's own handlers, and the sink handlers of the property panel as
\* the other component that changes the model
NextEditor ==
    \/ TextChange
    \/ TimerFire
    \/ Import
    \/ Export
    \/ Reset
    \/ AddSink
    \/ RemoveSink

SpecEditor == InitEditor /\ [][NextEditor]_vars

----------------------------------------------------------------------------
(* Actions of the drag gesture *)

\* App has rendered again (setTopology was called): the effect of
\* GraphVisualization on [topology, onNodeSelect] cleans up, which stops the
\* simulation a gesture in progress belongs to, and draws the new topology
GraphEffect(rendered) ==
    /\ graph' = IF rendered THEN Regenerated(topology', graph) ELSE graph
    /\ drag' = IF rendered THEN Detached(drag) ELSE drag

\* where the pointer is taken: to the centre of a processing node (an entity
\* starts out of every node's reach, at rest under its owner)
DropPoints == {MainPos(c) : c \in {ConnA, ConnB, ConnAB}}

\* dragstarted on a source or sink of the render: the simulation of that
\* render is restarted and the entity pinned where it is.  The handlers of the
\* gesture keep the render's `nodes` array.
DragStart ==
    /\ Alive
    /\ drag = NoDrag
    /\ \E j \in {k \in 1..Len(graph.nodes) : graph.nodes[k].nodeType \in Kinds} :
           drag' = Some([d |-> graph.nodes[j], nodes |-> graph.nodes,
                         pos |-> graph.nodes[j].pos, fpos |-> graph.nodes[j].pos,
                         live |-> TRUE])
    /\ lastOp' = Op("dragStart", "done", EmptyStr, EmptyStr, "sink", 0, Absent)
    /\ alerted' = NoAlert
    /\ UNCHANGED <<topology, selectedNodeInfo, selectedNode, editor, timers, graph>>

\* dragged: d.fx, d.fy follow the pointer
DraggedOver(points) ==
    /\ Alive
    /\ IsPresent(drag)
    /\ \E p \in points :
           /\ p # Get(drag).fpos
           /\ drag' = Some([Get(drag) EXCEPT !.fpos = p])
    /\ lastOp' = Op("dragged", "done", EmptyStr, EmptyStr, "sink", 0, Absent)
    /\ alerted' = NoAlert
    /\ UNCHANGED <<topology, selectedNodeInfo, selectedNode, editor, timers, graph>>

Dragged == DraggedOver(DropPoints)

\* a tick of the running simulation takes the pinned entity to d.fx, d.fy
SimTick ==
    /\ Alive
    /\ IsPresent(drag)
    /\ Get(drag).live
    /\ Get(drag).pos # Get(drag).fpos
    /\ drag' = Some([Get(drag) EXCEPT !.pos = Get(drag).fpos])
    /\ lastOp' = Op("tick", "done", EmptyStr, EmptyStr, "sink", 0, Absent)
    /\ alerted' = NoAlert
    /\ UNCHANGED <<topology, selectedNodeInfo, selectedNode, editor, timers, graph>>

\* dragended: the request, if a node captures the entity, is dispatched and
\* handled before the handler returns
DragEndRequest ==
    /\ Alive
    /\ IsPresent(drag)
    /\ LET dr == Get(drag)
           request == Request(dr.d, dr.pos, dr.nodes)
       IN IF IsPresent(request)
          THEN LET detail == Get(request)
               IN /\ NodeReassign(detail.sourceNodeId, detail.targetNodeId,
                                  detail.nodeType)
                  /\ lastOp' = Op("dragEnd", "request", EmptyStr, EmptyStr,
                                  detail.nodeType, 0, Absent)
          ELSE /\ alerted' = NoAlert
               /\ lastOp' = Op("dragEnd", "none", EmptyStr, EmptyStr, "sink", 0, Absent)
               /\ UNCHANGED <<topology, selectedNodeInfo, selectedNode, editor, timers>>
    /\ drag' = NoDrag

\* the request of the release was handled by a setTopology, which renders
DragEndRenders ==
    LET dr == Get(drag)
        request == Request(dr.d, dr.pos, dr.nodes)
    IN /\ IsPresent(request)
       /\ Reassigned(topology.nodes, Get(request).sourceNodeId,
                     Get(request).targetNodeId, Get(request).nodeType).changed

DragEnd ==
    /\ DragEndRequest
    /\ graph' = IF DragEndRenders THEN Regenerated(topology', graph) ELSE graph

\* the user deletes a sink or a node in the text while the graph is shown
EditText ==
    /\ TextChanged({HandText(D) : D \in Edits(topology) \ {topology}})
    /\ UNCHANGED <<graph, drag>>

\* a debounce timer fires while the graph is shown
Commit == TimerFired /\ GraphEffect(lastOp'.case = "accepted")

\* the topologies the gesture is tried on: node a owns two sinks, or node a-b
\* owns one
DragTopologies ==
    {[logical |-> Absent,
      nodes |-> [InitNodes EXCEPT ![1] = SetList(@, "sink", Some(<<SinkS1, SinkS2>>))]],
     [logical |-> Absent,
      nodes |-> [InitNodes EXCEPT ![3] = SetList(@, "sink", Some(<<SinkS1>>))]]}

\* graph and editor are both shown
InitDrag ==
    /\ topology \in DragTopologies
    /\ selectedNodeInfo = NoSelection
    /\ selectedNode = NoNode
    /\ editor = Mounted(topology)
    /\ timers = NoTimers
    /\ graph = Regenerated(topology, NoGraph)
    /\ drag = NoDrag
    /\ alerted = NoAlert
    /\ lastOp = NoOp

NextDrag ==
    \/ DragStart
    \/ Dragged
    \/ SimTick
    \/ DragEnd
    \/ EditText
    \/ Commit

SpecDrag == InitDrag /\ [][NextDrag]_vars

----------------------------------------------------------------------------
(* Actions of the release of a drag among processing nodes that lie close *)

NodeRadius == 30        \* node-circle: r of a processing node
CrowdSpacing == 30      \* distance of two processing nodes the simulation has not yet spread

\* Where a processing node is while the layout is in flux: the effect creates
\* the simulation anew on every render, processing nodes without a saved
\* position start next to each other, and the forces spread them over the
\* following ticks only.
CrowdedPos(connection) == <<ConnRank(connection) * CrowdSpacing, 0>>

\* the render g with its processing nodes still close to each other
Crowd(g) ==
    [nodes |-> [j \in 1..Len(g.nodes) |->
        [g.nodes[j] EXCEPT !.pos =
            IF g.nodes[j].nodeType = "main" THEN CrowdedPos(g.nodes[j].id)
            ELSE <<CrowdedPos(Get(g.nodes[j].parentId))[1], LinkDistance>>]],
     links |-> g.links]

\* where the pointer is taken: onto node a, between b and a-b nearer to a-b,
\* and away from every node
ReleasePoints == {<<0, 0>>, <<55, 0>>, <<0, 400>>}

\* dragged, its highlight: the processing node other than the owner (as
\* d.id.split("-")[0] names it) that is closest to the entity, the first of
\* several at one distance, if it is within the radius
Highlighted(d, pos, nodes) ==
    LET originalParentId == Split(d.id)[1]
        mainNodes == {j \in 1..Len(nodes) :
                         nodes[j].nodeType = "main" /\ nodes[j].id # originalParentId}
        closest == CHOOSE j \in mainNodes :
                       \A k \in mainNodes :
                           \/ Dist2(nodes[j].pos, pos) < Dist2(nodes[k].pos, pos)
                           \/ (Dist2(nodes[j].pos, pos) = Dist2(nodes[k].pos, pos) /\ j <= k)
    IN IF mainNodes # {} /\ Within(nodes[closest].pos, pos)
       THEN Some(nodes[closest].id) ELSE Absent

DraggedAbout == DraggedOver(ReleasePoints)

InitRelease ==
    /\ topology \in DragTopologies
    /\ selectedNodeInfo = NoSelection
    /\ selectedNode = NoNode
    /\ editor = Unmounted
    /\ timers = NoTimers
    /\ graph \in {Regenerated(topology, NoGraph), Crowd(Regenerated(topology, NoGraph))}
    /\ drag = NoDrag
    /\ alerted = NoAlert
    /\ lastOp = NoOp

NextRelease ==
    \/ DragStart
    \/ DraggedAbout
    \/ SimTick
    \/ DragEnd

SpecRelease == InitRelease /\ [][NextRelease]_vars

----------------------------------------------------------------------------
(* Selection: App.tsx handleNodeSelect / handlePropertyChange, the click     *)
(* handlers of GraphVisualization and the panel of PropertyEditor            *)

NoIndex == -1       \* the selection carries no physicalSourceIndex / sinkIndex
NoName == ""

\* {type: 'main', nodeId}
MainSelection(nodeId) ==
    Some([type |-> "main", nodeId |-> nodeId, parentId |-> EmptyStr, name |-> NoName,
          index |-> NoIndex])

\* selectGraphNode naming the owner as dragended does, by the id's first piece
GraphSelectionSplitOwner(T, d) ==
    IF d.nodeType = "main"
    THEN [called |-> Exists(T.nodes, d.id), selection |-> MainSelection(d.id)]
    ELSE [called |-> IsPresent(d.parentId) /\ d.connection # NoName,
          selection |-> EntitySelection(d.nodeType, Split(d.id)[1],
                                        Get(d.parentIndex), d.connection)]

\* selectGraphNode(d): whether onNodeSelect is called, and with what.  A
\* processing node is looked up in the topology of the render first; a source
\* or sink needs a parentId and a non-empty name.
GraphSelection(T, d) ==
    IF d.nodeType = "main"
    THEN [called |-> Exists(T.nodes, d.id), selection |-> MainSelection(d.id)]
    ELSE [called |-> IsPresent(d.parentId) /\ d.connection # NoName,
          selection |-> IF IsPresent(d.parentId)
                        THEN EntitySelection(d.nodeType, Get(d.parentId),
                                             Get(d.parentIndex), d.connection)
                        ELSE NoSelection]

\* the row of a source or sink in the panel of a processing node, which lists
\* selectedNode's own physical and sinks: the selection its click asks for
RowSelection(node, kind, index) ==
    Some([type |-> kind, nodeId |-> EntityId(node.connection, kind, index),
          parentId |-> node.connection,
          name |-> EntityName(kind, Items(ListOf(node, kind))[index + 1]),
          index |-> NoIndex])

\* topology.nodes.find(n => n.connection === id) || null
FoundNode(nodes, id) == IF Exists(nodes, id) THEN Some(nodes[FindNode(nodes, id)]) ELSE NoNode

\* list.findIndex(e => e.logical === name) / (e => e.name === name), 0-based
FindIndex(list, kind, name) ==
    IF \E j \in 1..Len(list) : EntityName(kind, list[j]) = name
    THEN (CHOOSE j \in 1..Len(list) :
              /\ EntityName(kind, list[j]) = name
              /\ \A k \in 1..(j - 1) : EntityName(kind, list[k]) # name) - 1
    ELSE -1

\* what PropertyEditor renders for (selectedNode, selectedNodeId) over the
\* topology: the view, the node it is about and, for a source or sink, the
\* position in the owner's list of the entity it shows
View(view, owner, index) == [view |-> view, owner |-> owner, index |-> index]

Presented(T, node, info) ==
    IF ~IsPresent(node) /\ ~IsPresent(info) THEN View("none", EmptyStr, NoIndex)
    ELSE IF IsPresent(info) /\ Get(info).type = "main" /\ ~IsPresent(node)
    THEN View("nodata", EmptyStr, NoIndex)
    ELSE IF IsPresent(info) /\ Get(info).type \in Kinds
    THEN LET kind == Get(info).type
             parentId == Get(info).parentId
             mainNode == FoundNode(T.nodes, parentId)
         IN IF ~IsPresent(mainNode) \/ ~IsPresent(ListOf(Get(mainNode), kind))
            THEN View("notfound", parentId, NoIndex)
            ELSE LET found == FindIndex(Get(ListOf(Get(mainNode), kind)), kind,
                                        Get(info).name)
                 IN IF found = -1 THEN View("notfound", parentId, NoIndex)
                    ELSE View(kind, parentId, found)
    ELSE View("main", Get(node).connection, NoIndex)

\* handleNodeSelect(selection)
NodeSelect(selection) ==
    /\ selectedNodeInfo' = selection
    /\ selectedNode' = IF IsPresent(selection) /\ Get(selection).type = "main"
                       THEN FoundNode(topology.nodes, Get(selection).nodeId)
                       ELSE NoNode

\* handlePropertyChange('_selectSource' | '_selectSink', value)
PropertySelect(value) ==
    /\ selectedNodeInfo' = value
    /\ UNCHANGED selectedNode

\* _selectNode without its lookup of the node
SelectNodeInfoOnly(value) ==
    /\ selectedNodeInfo' = value
    /\ UNCHANGED selectedNode

\* handlePropertyChange('_selectNode', value)
SelectNode(value) ==
    /\ selectedNodeInfo' = value
    /\ selectedNode' = IF Get(value).type = "main"
                       THEN FoundNode(topology.nodes, Get(value).nodeId)
                       ELSE selectedNode

----------------------------------------------------------------------------
(* Actions of selection *)

\* a second sink of the name of SinkS1
SinkS1File == [name |-> "s1", type |-> "File"]

\* the render follows every change of the topology
Rendered == graph' = Regenerated(topology', graph) /\ UNCHANGED drag

\* a click on the visual of a render entity
ClickEntity ==
    /\ Alive
    /\ \E j \in 1..Len(graph.nodes) :
           LET d == graph.nodes[j]
               g == GraphSelection(topology, d)
           IN /\ IF g.called THEN NodeSelect(g.selection)
                 ELSE UNCHANGED <<selectedNodeInfo, selectedNode>>
              /\ lastOp' = Op("click", "valid", d.id, EmptyStr, d.nodeType,
                              IF IsPresent(d.parentIndex) THEN Get(d.parentIndex) ELSE 0,
                              Absent)
    /\ alerted' = NoAlert
    /\ UNCHANGED <<topology, editor, timers, graph, drag>>

\* a click on the empty canvas
ClickCanvas ==
    /\ Alive
    /\ NodeSelect(NoSelection)
    /\ lastOp' = Op("clickCanvas", "done", EmptyStr, EmptyStr, "main", 0, Absent)
    /\ alerted' = NoAlert
    /\ UNCHANGED <<topology, editor, timers, graph, drag>>

\* a click on the row of a source or sink in the panel of a processing node
ClickRow ==
    /\ Alive
    /\ Presented(topology, selectedNode, selectedNodeInfo).view = "main"
    /\ \E kind \in Kinds :
         \E index \in 0..(Len(Items(ListOf(Get(selectedNode), kind))) - 1) :
           /\ PropertySelect(RowSelection(Get(selectedNode), kind, index))
           /\ lastOp' = Op("selectRow", "valid", Get(selectedNode).connection, EmptyStr,
                           kind, index, Absent)
    /\ alerted' = NoAlert
    /\ UNCHANGED <<topology, editor, timers, graph, drag>>

\* the Back to Node button of the panel of a source or sink
Back ==
    /\ Alive
    /\ Presented(topology, selectedNode, selectedNodeInfo).view \in Kinds
    /\ SelectNode(MainSelection(Get(selectedNodeInfo).parentId))
    /\ lastOp' = Op("back", "valid", Get(selectedNodeInfo).parentId, EmptyStr,
                    Get(selectedNodeInfo).type, 0, Absent)
    /\ alerted' = NoAlert
    /\ UNCHANGED <<topology, editor, timers, graph, drag>>

\* a source or sink of the render is dragged onto a processing node of the
\* render and released there: dragended builds the request, the owner named by
\* d.id.split("-")[0], and the listener handles it
Drop ==
    /\ Alive
    /\ \E j \in 1..Len(graph.nodes), t \in 1..Len(graph.nodes) :
           LET d == graph.nodes[j]
               target == graph.nodes[t]
               sourceNodeId == Split(d.id)[1] \o <<Dash>> \o KindStr(d.nodeType)
                               \o <<Dash>> \o NumToStr(Get(d.parentIndex))
           IN /\ d.nodeType \in Kinds
              /\ target.nodeType = "main"
              /\ target.id # Split(d.id)[1]
              /\ NodeReassign(sourceNodeId, target.id, d.nodeType)
              /\ lastOp' = Op("reassign",
                              ReassignCase(topology.nodes, Get(d.parentId), target.id,
                                           d.nodeType, Get(d.parentIndex)),
                              Get(d.parentId), target.id, d.nodeType,
                              Get(d.parentIndex), Absent)
    /\ Rendered

\* the remove button of a row of the panel of a processing node, or the
\* Remove Sink button of the panel of a sink
PanelRemove ==
    /\ Alive
    /\ LET shown == Presented(topology, selectedNode, selectedNodeInfo)
       IN \/ /\ shown.view = "main"
             /\ \E kind \in Kinds :
                  \E index \in 0..(Len(Items(ListOf(Get(selectedNode), kind))) - 1) :
                    /\ RemoveEntity(Get(selectedNode).connection, kind, index)
                    /\ lastOp' = Op("remove",
                                    IF InRange(topology.nodes,
                                               Get(selectedNode).connection, kind, index)
                                    THEN "valid" ELSE "range",
                                    Get(selectedNode).connection, EmptyStr, kind, index,
                                    Absent)
          \/ /\ shown.view = "sink"
             /\ RemoveEntity(shown.owner, "sink", shown.index)
             /\ lastOp' = Op("remove", "valid", shown.owner, EmptyStr, "sink",
                             shown.index, Absent)
    /\ Rendered

\* node a owns a source and two sinks of one name
SelectNodes ==
    [InitNodes EXCEPT
        ![1] = [@ EXCEPT !.physical = Some(<<CHOOSE s \in Sources : TRUE>>),
                         !.sinks = Some(<<SinkS1, SinkS1File>>)]]

InitSelect ==
    /\ topology = [logical |-> Absent, nodes |-> SelectNodes]
    /\ selectedNodeInfo = NoSelection
    /\ selectedNode = NoNode
    /\ editor = Unmounted
    /\ timers = NoTimers
    /\ graph = Regenerated(topology, NoGraph)
    /\ drag = NoDrag
    /\ alerted = NoAlert
    /\ lastOp = NoOp

NextSelect ==
    \/ ClickEntity
    \/ ClickCanvas
    \/ ClickRow
    \/ Back
    \/ Drop
    \/ PanelRemove

SpecSelect == InitSelect /\ [][NextSelect]_vars

----------------------------------------------------------------------------
(* Logical schemas: their colours and the warning of a source without one *)

\* two spellings of one word: with the letter U+00E9, and with "e" followed
\* by the combining accent U+0301.  "<e9>" and "<301>" stand for these two
\* code units.
NameE9 == "caf<e9>"
NameE301 == "cafe<301>"

\* names the user gives to schemas; the editor accepts the empty name
SchemaNames == {"", "orders", "stream", NameE9, NameE301}

\* twenty schemas that take the whole palette
PaletteNames ==
    <<"01", "02", "03", "04", "05", "06", "07", "08", "09", "10",
      "11", "12", "13", "14", "15", "16", "17", "18", "19", "20">>

Names == SchemaNames \cup Range(PaletteNames)

\* the code units of a name
Chars(name) ==
    CASE name = "" -> <<>>
      [] name = "orders" -> <<"o", "r", "d", "e", "r", "s">>
      [] name = "stream" -> <<"s", "t", "r", "e", "a", "m">>
      [] name = NameE9 -> <<"c", "a", "f", "<e9>">>
      [] name = NameE301 -> <<"c", "a", "f", "e", "<301>">>
      [] OTHER ->
            LET k == CHOOSE i \in 1..Len(PaletteNames) : PaletteNames[i] = name
            IN IF k < 10 THEN <<"0">> \o IntToStr(k) ELSE IntToStr(k)

\* canonical composition: "e" and the combining accent make U+00E9
RECURSIVE Composed(_)
Composed(s) ==
    IF Len(s) = 0 THEN <<>>
    ELSE IF Len(s) >= 2 /\ s[1] = "e" /\ s[2] = "<301>"
         THEN <<"<e9>">> \o Composed(SubSeq(s, 3, Len(s)))
         ELSE <<s[1]>> \o Composed(Tail(s))

\* the code units in use, in collation order
CollationOrder ==
    <<"0", "1", "2", "3", "4", "5", "6", "7", "8", "9",
      "a", "c", "d", "e", "<e9>", "f", "m", "o", "r", "s", "t", "<301>">>

Weight(c) == CHOOSE k \in 1..Len(CollationOrder) : CollationOrder[k] = c

RECURSIVE Compared(_, _)
Compared(s, t) ==
    IF Len(s) = 0 /\ Len(t) = 0 THEN 0
    ELSE IF Len(s) = 0 THEN -1
    ELSE IF Len(t) = 0 THEN 1
    ELSE IF Weight(s[1]) < Weight(t[1]) THEN -1
    ELSE IF Weight(s[1]) > Weight(t[1]) THEN 1
    ELSE Compared(Tail(s), Tail(t))

\* a.localeCompare(b): a total order of the strings up to canonical
\* equivalence, 0 for two spellings that are canonically equivalent
LocaleCompare == [a \in Names, b \in Names |-> Compared(Composed(Chars(a)), Composed(Chars(b)))]

LogicalSchema(name) == [name |-> name, schema |-> <<>>]

\* where `schema` goes in a list that is in order: behind every element that
\* does not compare greater, which keeps equal elements in their given order
RECURSIVE Inserted(_, _)
Inserted(sorted, schema) ==
    IF Len(sorted) = 0 THEN <<schema>>
    ELSE LET last == sorted[Len(sorted)]
         IN IF LocaleCompare[last.name, schema.name] <= 0 THEN Append(sorted, schema)
            ELSE Append(Inserted(SubSeq(sorted, 1, Len(sorted) - 1), schema), last)

\* [...topology.logical].sort((a, b) => a.name.localeCompare(b.name)): the
\* sort is stable
RECURSIVE SortedSchemas(_)
SortedSchemas(list) ==
    IF Len(list) = 0 THEN <<>>
    ELSE Inserted(SortedSchemas(SubSeq(list, 1, Len(list) - 1)), list[Len(list)])

PaletteSize == 20

\* a fill: a colour of the palette by its position, a colour computed from a
\* name, or one of the fixed fills
Colour(from, index, name) == [from |-> from, index |-> index, name |-> name]

\* colorPalette[index]: twenty distinct colours
ColorPalette(index) == Colour("palette", index, NoName)

\* getLogicalSchemaColor(schemaName): hue, saturation and lightness taken
\* from a hash of the name's code units, a function of the name alone
GetLogicalSchemaColor(schemaName) == Colour("hash", NoIndex, schemaName)

WarningPattern == Colour("url(#warning-pattern)", NoIndex, NoName)
DefaultGreen == Colour("#8BC34A", NoIndex, NoName)
SinkOrange == Colour("#FF9800", NoIndex, NoName)
CapacityBlue == Colour("#4285F4", NoIndex, NoName)

\* existingSchemas, as filled by the loop over the sorted schemas
ExistingSchemas(logical) == {s.name : s \in Range(Items(logical))}

\* schemaColorMap: every name gets the colour of its last position in the
\* sorted list, from the palette first and from the name beyond it
SchemaColorMap(logical) ==
    LET sorted == SortedSchemas(Items(logical))
        LastOf(name) == CHOOSE k \in 1..Len(sorted) :
                            /\ sorted[k].name = name
                            /\ \A m \in (k + 1)..Len(sorted) : sorted[m].name # name
    IN [name \in ExistingSchemas(logical) |->
           IF LastOf(name) - 1 < PaletteSize THEN ColorPalette(LastOf(name) - 1)
           ELSE GetLogicalSchemaColor(name)]

LogicalSchemaExists(logical, name) == name \in ExistingSchemas(logical)

\* the source a render entity stands for, looked up as the fill, the stroke
\* and the title look it up: the owner by address, the source by position
SourceOf(T, d) ==
    LET j == FindNode(T.nodes, Get(d.parentId))
    IN IF j # 0 /\ IsPresent(T.nodes[j].physical) /\ IsPresent(d.parentIndex)
          /\ Get(d.parentIndex) < Len(Get(T.nodes[j].physical))
       THEN Some(Get(T.nodes[j].physical)[Get(d.parentIndex) + 1])
       ELSE Absent

\* source && source.logical && !logicalSchemaExists(source.logical)
MissingSchema(T, d) ==
    /\ d.nodeType = "physical"
    /\ IsPresent(SourceOf(T, d))
    /\ Get(SourceOf(T, d)).logical # ""
    /\ ~LogicalSchemaExists(T.logical, Get(SourceOf(T, d)).logical)

\* .attr("fill", ...) of the node circle
Fill(T, d) ==
    IF d.nodeType = "physical"
    THEN IF IsPresent(SourceOf(T, d)) /\ Get(SourceOf(T, d)).logical # ""
         THEN IF MissingSchema(T, d) THEN WarningPattern
              ELSE SchemaColorMap(T.logical)[Get(SourceOf(T, d)).logical]
         ELSE DefaultGreen
    ELSE IF d.nodeType = "sink" THEN SinkOrange
    ELSE CapacityBlue

\* .attr("stroke", ...) and .attr("stroke-width", ...) of the node circle
Stroke(T, d) == IF MissingSchema(T, d) THEN "#000" ELSE "#fff"
StrokeWidth(T, d) ==
    IF MissingSchema(T, d) THEN 2 ELSE IF d.nodeType = "main" THEN 2 ELSE 1

\* handleAddLogicalSchema(schema)
AddedLogicalSchema(T, schema) ==
    [T EXCEPT !.logical = Some(Items(T.logical) \o <<schema>>)]

\* handleUpdateLogicalSchema(index, schema)
UpdatedLogicalSchema(T, index, schema) ==
    IF ~IsPresent(T.logical) THEN T
    ELSE [T EXCEPT !.logical = Some([Get(T.logical) EXCEPT ![index + 1] = schema])]

\* handleRemoveLogicalSchema(index): the last schema gone, the list itself goes
RemovedLogicalSchema(T, index) ==
    IF ~IsPresent(T.logical) THEN T
    ELSE LET updatedLogical == RemoveAt(Get(T.logical), index)
         IN [T EXCEPT !.logical = IF Len(updatedLogical) > 0 THEN Some(updatedLogical)
                                  ELSE Absent]

----------------------------------------------------------------------------
(* Actions of the schema list, with the graph shown *)

MaxSchemas == 2

\* schemas the user has added, beyond the ones that fill the palette
OwnSchemas(T) ==
    {k \in 1..Len(Items(T.logical)) : Items(T.logical)[k].name \in SchemaNames}

\* LogicalEditor, Save of a new schema: handleAddLogicalSchema
AddLogicalSchema ==
    /\ Alive
    /\ Cardinality(OwnSchemas(topology)) < MaxSchemas
    /\ \E name \in SchemaNames :
           /\ topology' = AddedLogicalSchema(topology, LogicalSchema(name))
           /\ lastOp' = Op("addSchema", "valid", EmptyStr, EmptyStr, "physical",
                           Len(Items(topology.logical)), Some(LogicalSchema(name)))
    /\ alerted' = NoAlert
    /\ Rendered
    /\ editor' = AfterRender(topology', editor)
    /\ UNCHANGED <<selectedNodeInfo, selectedNode, timers>>

\* LogicalEditor, Save of an edited schema: handleUpdateLogicalSchema
UpdateLogicalSchema ==
    /\ Alive
    /\ \E k \in OwnSchemas(topology), name \in SchemaNames :
           /\ name # Items(topology.logical)[k].name
           /\ topology' = UpdatedLogicalSchema(topology, k - 1, LogicalSchema(name))
           /\ lastOp' = Op("updateSchema", "valid", EmptyStr, EmptyStr, "physical",
                           k - 1, Some(LogicalSchema(name)))
    /\ alerted' = NoAlert
    /\ Rendered
    /\ editor' = AfterRender(topology', editor)
    /\ UNCHANGED <<selectedNodeInfo, selectedNode, timers>>

\* LogicalEditor, Remove: handleRemoveLogicalSchema
RemoveLogicalSchema ==
    /\ Alive
    /\ \E k \in OwnSchemas(topology) :
           /\ topology' = RemovedLogicalSchema(topology, k - 1)
           /\ lastOp' = Op("removeSchema", "valid", EmptyStr, EmptyStr, "physical",
                           k - 1, Some(Items(topology.logical)[k]))
    /\ alerted' = NoAlert
    /\ Rendered
    /\ editor' = AfterRender(topology', editor)
    /\ UNCHANGED <<selectedNodeInfo, selectedNode, timers>>

SourceNamed(logical) == [logical |-> logical, parserType |-> "CSV", sourceType |-> "File"]

\* a reads "orders" and a source without a name, b reads the word spelled
\* with the combining accent
SchemaNodes ==
    [InitNodes EXCEPT
        ![1] = [@ EXCEPT !.physical = Some(<<SourceNamed("orders"), SourceNamed("")>>)],
        ![2] = [@ EXCEPT !.physical = Some(<<SourceNamed(NameE301)>>),
                         !.sinks = Some(<<SinkS1>>)]]

InitSchema ==
    /\ topology \in {[logical |-> Absent, nodes |-> SchemaNodes],
                     [logical |-> Some(<<LogicalSchema("stream")>>), nodes |-> SchemaNodes]}
    /\ selectedNodeInfo = NoSelection
    /\ selectedNode = NoNode
    /\ editor = Unmounted
    /\ timers = NoTimers
    /\ graph = Regenerated(topology, NoGraph)
    /\ drag = NoDrag
    /\ alerted = NoAlert
    /\ lastOp = NoOp

NextSchema ==
    \/ AddLogicalSchema
    \/ UpdateLogicalSchema
    \/ RemoveLogicalSchema
    \/ ClickEntity
    \/ DragStart
    \/ DragEnd

SpecSchema == InitSchema /\ [][NextSchema]_vars

\* the schema list alone, empty or holding the twenty schemas of the palette
\* at the start
InitColours ==
    /\ topology \in {[logical |-> Absent, nodes |-> SchemaNodes],
                     [logical |-> Some([k \in 1..PaletteSize |->
                                           LogicalSchema(PaletteNames[k])]),
                      nodes |-> SchemaNodes]}
    /\ selectedNodeInfo = NoSelection
    /\ selectedNode = NoNode
    /\ editor = Unmounted
    /\ timers = NoTimers
    /\ graph = Regenerated(topology, NoGraph)
    /\ drag = NoDrag
    /\ alerted = NoAlert
    /\ lastOp = NoOp

NextColours ==
    \/ AddLogicalSchema
    \/ UpdateLogicalSchema
    \/ RemoveLogicalSchema

SpecColours == InitColours /\ [][NextColours]_vars

----------------------------------------------------------------------------
(* Actions of the text editor over topologies whose scalars need care *)

\* a port alone as the address, a list that is present and empty, a link,
\* an address with a dash
NodesOfNumerals ==
    <<[NewNode(ConnA) EXCEPT !.grpc = <<"8", "0">>, !.physical = Some(<<>>)],
      [NewNode(ConnAB) EXCEPT
          !.links = Some([downstreams |-> Some(<<ConnA>>), upstreams |-> Absent])]>>

\* a sink and a schema without a name
NodesOfEmptyNames ==
    <<[NewNode(ConnA) EXCEPT !.sinks = Some(<<[name |-> "", type |-> "Print"]>>)]>>

InitRoundTrip ==
    /\ topology \in {[logical |-> Absent, nodes |-> NodesOfNumerals],
                     [logical |-> Some(<<LogicalSchema("")>>), nodes |-> NodesOfEmptyNames]}
    /\ selectedNodeInfo = NoSelection
    /\ selectedNode = NoNode
    /\ editor = Mounted(topology)
    /\ timers = NoTimers
    /\ graph = Regenerated(topology, NoGraph)
    /\ drag = NoDrag
    /\ alerted = NoAlert
    /\ lastOp = NoOp

\* import and export of the text shown, and the sink handlers of the property
\* panel that change the model under the editor
NextRoundTrip ==
    \/ Import
    \/ Export
    \/ AddSink
    \/ RemoveSink

SpecRoundTrip == InitRoundTrip /\ [][NextRoundTrip]_vars

----------------------------------------------------------------------------
(* Claims about sources and sinks, checked under Spec *)

\* the other kind
Other(kind) == IF kind = "physical" THEN "sink" ELSE "physical"

\* the lists of node j as a step leaves them, set against what they were
Kept(old, new, j) ==
    /\ new[j].physical = old[j].physical
    /\ new[j].sinks = old[j].sinks

\* what C1 says of a step that is reassign(A, B, kind, i): old and new are the
\* nodes before and after, a and b the positions of A and B
MovedTo(old, new, a, b, kind, i) ==
    LET listA == Items(ListOf(old[a], kind))
        listB == Items(ListOf(old[b], kind))
    IN /\ Len(new) = Len(old)
       /\ Items(ListOf(new[a], kind)) = RemoveAt(listA, i)
       /\ Items(ListOf(new[b], kind)) = Append(listB, listA[i + 1])
       /\ Total(new, kind) = Total(old, kind)

ReassignIsValid == lastOp'.op = "reassign" /\ lastOp'.case = "valid"

\* C1: reassign(A, B, kind, i) with A and B distinct nodes of the topology and
\* i a position of A's list of that kind leaves A's list without element i,
\* B's list as it was followed by the moved entity, and the number of entities
\* of that kind in the topology as it was.
C1_ReassignMovesToEnd ==
    [][ReassignIsValid =>
           MovedTo(topology.nodes, topology'.nodes,
                   FindNode(topology.nodes, lastOp'.a),
                   FindNode(topology.nodes, lastOp'.b),
                   lastOp'.kind, lastOp'.index)]_vars

\* C1, for owners whose address has no '-': the same statement, which the
\* handler keeps
C1_ReassignMovesToEndPlainOwner ==
    [][(ReassignIsValid /\ ~Includes(lastOp'.a, Dash)) =>
           MovedTo(topology.nodes, topology'.nodes,
                   FindNode(topology.nodes, lastOp'.a),
                   FindNode(topology.nodes, lastOp'.b),
                   lastOp'.kind, lastOp'.index)]_vars

\* C2: reassign(ownerId, targetOwnerId, kind, index) changes no list of any
\* node when ownerId or targetOwnerId names no node, or index is no position
\* of the owner's list of that kind.
C2_InvalidReassignIsNoOp ==
    [][(lastOp'.op = "reassign" /\ lastOp'.case \in {"missing", "range"}) =>
           topology'.nodes = topology.nodes]_vars

NoEmptyList ==
    \A j \in 1..Len(topology.nodes), kind \in Kinds :
        ListOf(topology.nodes[j], kind) # Some(<<>>)

\* a step that is removeSource / removeSink (ownerId, index), index a position
\* of the owner's list: that list loses exactly that element and the field is
\* absent when it was the only one; nothing else changes
RemovesExactly ==
    (lastOp'.op = "remove" /\ lastOp'.case = "valid") =>
        LET old == topology.nodes
            new == topology'.nodes
            a == FindNode(old, lastOp'.a)
            kind == lastOp'.kind
            list == Get(ListOf(old[a], kind))
        IN /\ Len(new) = Len(old)
           /\ ListOf(new[a], kind) =
                  IF Len(list) = 1 THEN Absent ELSE Some(RemoveAt(list, lastOp'.index))
           /\ Len(Items(ListOf(new[a], kind))) = Len(list) - 1
           /\ ListOf(new[a], Other(kind)) = ListOf(old[a], Other(kind))
           /\ \A j \in 1..Len(old) : j # a => Kept(old, new, j)

\* C9: removeSource / removeSink remove exactly the element at the position,
\* the field becoming absent when it was the last one; and no add, remove or
\* reassign leaves a node with a physical or sinks field present but empty.
C9_RemoveNormalises ==
    /\ NoEmptyList
    /\ [][RemovesExactly /\ NoEmptyList']_vars

\* C9's case: the last sink or source of a node has just been removed
C9_Witness ==
    /\ lastOp.op = "remove" /\ lastOp.case = "valid"
    /\ ListOf(topology.nodes[FindNode(topology.nodes, lastOp.a)], lastOp.kind) = Absent

----------------------------------------------------------------------------
(* Claims about links and node deletion, checked under SpecLinks *)

\* C7: removeNode(connection) removes the node with that connection and, in
\* every remaining node, every occurrence of the connection from both the
\* downstreams and the upstreams, also when the node has it in both; every
\* other peer reference stays.
C7_DeleteNodeScrubsBothLists ==
    [][(lastOp'.op = "deleteNode" /\ lastOp'.case = "valid") =>
           LET connection == lastOp'.a
               old == NodesWithout(topology.nodes, connection)
               new == topology'.nodes
           IN /\ Len(new) = Len(old)
              /\ \A j \in 1..Len(old) :
                     /\ new[j].connection = old[j].connection
                     /\ \A type \in LinkTypes :
                            Items(Peers(new[j], type))
                                = Without(Items(Peers(old[j], type)), connection)]_vars

\* C7, for nodes that have the deleted node in one of their lists at most
C7_DeleteNodeScrubsOneList ==
    [][(lastOp'.op = "deleteNode" /\ lastOp'.case = "valid") =>
           LET connection == lastOp'.a
               old == NodesWithout(topology.nodes, connection)
               new == topology'.nodes
           IN /\ Len(new) = Len(old)
              /\ \A j \in 1..Len(old) :
                     /\ new[j].connection = old[j].connection
                     /\ ~(/\ Includes(Items(Peers(old[j], "downstream")), connection)
                          /\ Includes(Items(Peers(old[j], "upstream")), connection))
                        => \A type \in LinkTypes :
                               Items(Peers(new[j], type))
                                   = Without(Items(Peers(old[j], type)), connection)]_vars

\* how often peer occurs in list
Count(list, peer) == Cardinality({k \in 1..Len(list) : list[k] = peer})

NoDuplicateLink ==
    \A j \in 1..Len(topology.nodes), type \in LinkTypes :
        \A peer \in Range(Items(Peers(topology.nodes[j], type))) :
            Count(Items(Peers(topology.nodes[j], type)), peer) = 1

\* the node that holds a link of a type from source to target, and its peer
Holder(source, target, type) == IF type = "downstream" THEN source ELSE target
PeerOf(source, target, type) == IF type = "downstream" THEN target ELSE source

\* a step that adds a link the holder does not have: the holder's list of that
\* type is what it was followed by the peer, which is in it once; no alert,
\* nothing else changes
AddsOnce ==
    (lastOp'.op = "addLink" /\ lastOp'.case = "valid") =>
        LET old == topology.nodes
            new == topology'.nodes
            type == lastOp'.kind
            k == FindNode(old, Holder(lastOp'.a, lastOp'.b, type))
            peer == PeerOf(lastOp'.a, lastOp'.b, type)
        IN /\ Len(new) = Len(old)
           /\ Items(Peers(new[k], type)) = Append(Items(Peers(old[k], type)), peer)
           /\ Count(Items(Peers(new[k], type)), peer) = 1
           /\ \A t \in LinkTypes \ {type} : Peers(new[k], t) = Peers(old[k], t)
           /\ \A j \in 1..Len(old) : j # k => new[j] = old[j]
           /\ alerted' = NoAlert

\* a step that adds a link the holder has already: reported, nothing changes
RejectsDuplicate ==
    (lastOp'.op = "addLink" /\ lastOp'.case = "duplicate") =>
        /\ alerted' = Some(MsgHasLink(lastOp'.kind))
        /\ topology'.nodes = topology.nodes

\* C8: adding a link the holder's list does not contain puts the peer into
\* that list exactly once; adding a link that is there already, downstream or
\* upstream, is rejected with an alert and changes no list; no list ever
\* holds a peer twice.
C8_AddLinkNeverDuplicates ==
    /\ []NoDuplicateLink
    /\ [][AddsOnce /\ RejectsDuplicate]_vars

\* C8's case: a link has just been asked for a second time
C8_Witness ==
    /\ lastOp.op = "addLink" /\ lastOp.case = "duplicate"
    /\ alerted = Some(MsgHasLink(lastOp.kind))
    /\ TotalLinks(topology.nodes) > 0

----------------------------------------------------------------------------
(* Claims about the text editor, checked under SpecEditor *)

\* the timer that fires in a step
FiredTimer == CHOOSE t \in timers.pending : t \notin timers'.pending

\* the text a step validates: the shown one on import, the timer's own when a
\* timer fires
ValidatedText == IF lastOp'.op = "import" THEN editor.yamlText ELSE FiredTimer.text

\* a step that validates a text that does not parse or has no nodes: the
\* model stays, the editor is invalid and shows the error
RejectsInvalidText ==
    (lastOp'.op \in {"timer", "import"} /\ ~Parse(ValidatedText).ok) =>
        /\ lastOp'.case = ValidatedText.kind
        /\ topology' = topology
        /\ ~editor'.isValid
        /\ editor'.error = Parse(ValidatedText).error
        /\ editor'.error # NoError
        /\ ValidatedText = NoNodesText => Includes(editor'.error, "nodes")

\* a step of the editor that changes the model validates a text that parses
\* and has nodes, and the model is that text's
ReplacesFromValidText ==
    (lastOp'.op \in {"textChange", "timer", "import", "export", "reset"}
     /\ topology' # topology) =>
        /\ lastOp'.op \in {"timer", "import"}
        /\ Parse(ValidatedText).ok
        /\ topology' = [logical |-> Get(Parse(ValidatedText).value).logical,
                        nodes |-> Get(Parse(ValidatedText).value).nodes]

\* C4: the model is replaced only from editor text that parses and has a nodes
\* entry; validation (a debounce timer firing, or import) of a text that does
\* not parse or lacks nodes leaves the model as it is, makes the editor
\* invalid and shows an error, one that has "nodes" in it when nodes is missing.
C4_InvalidTextIsRejected ==
    [][RejectsInvalidText /\ ReplacesFromValidText]_vars

\* C4's case: a timer has fired on a text without nodes
C4_Witness ==
    /\ lastOp.op = "timer" /\ lastOp.case = "nonodes"
    /\ ~editor.isValid
    /\ Includes(editor.error, "nodes")

\* at most one timer is pending, and it is the one the latest edit armed
LatestOnly ==
    /\ Cardinality(timers.pending) <= 1
    /\ \A t \in timers.pending : t.id = editor.typingTimer /\ t.id = timers.next - 1

\* an edit leaves its own timer, armed with its own text, as the only pending
\* one, and does not touch the model
EditRearms ==
    lastOp'.op = "textChange" =>
        /\ timers'.pending = {[id |-> timers.next, text |-> editor'.yamlText]}
        /\ editor'.typingTimer = timers.next
        /\ topology' = topology

\* the timer that fires is the latest edit's, and what it commits is its text
FiresLatest ==
    lastOp'.op = "timer" =>
        /\ FiredTimer.id = editor.typingTimer
        /\ timers.pending = {FiredTimer}
        /\ topology' # topology =>
               topology' = [logical |-> Get(Parse(FiredTimer.text).value).logical,
                            nodes |-> Get(Parse(FiredTimer.text).value).nodes]

\* C5: in a burst of edits, each before the previous edit's timer has fired,
\* at most one timer is pending at any time (arming one cancels the one
\* outstanding), only the final edit's text is validated or committed, and no
\* intermediate edit's text changes the model.
C5_DebounceKeepsLatestOnly ==
    /\ LatestOnly
    /\ [][LatestOnly' /\ EditRearms /\ FiresLatest]_vars

\* C5's case: an edit has replaced the pending timer of the edit before it
C5_Witness ==
    /\ lastOp.op = "textChange" /\ lastOp.case = "rearmed"
    /\ Cardinality(timers.pending) = 1

\* the property panel's handlers are the other component
ExternalChange == lastOp'.op \in {"add", "remove"} /\ topology' # topology

\* C6: while the editor is dirty-typing or invalid, a change of the model by
\* another component does not change the editor's text.
C6_UnsavedTextIsKept ==
    [][(ExternalChange /\ (editor.isDirty \/ ~editor.isValid)) =>
           editor'.yamlText = editor.yamlText]_vars

\* C6, for the dirty flag alone
C6_DirtyTextIsKept ==
    [][(ExternalChange /\ editor.isDirty) => editor'.yamlText = editor.yamlText]_vars

\* the editor gets invalid without being dirty in one way only: a timer fires
\* on a text that is no longer the one shown
C6_InvalidCleanByStaleTimerOnly ==
    [][(~editor'.isValid /\ ~editor'.isDirty /\ (editor.isValid \/ editor.isDirty)) =>
           (lastOp'.op = "timer" /\ FiredTimer.text # editor.yamlText)]_vars

\* C13: whenever a text is validated - by a debounce timer firing or by
\* import, which validates at once and waits for no timer - and the text
\* parses with a nodes entry, the model becomes the topology parsed from that
\* text, the error is cleared and the editor is clean.
C13_ValidTextIsCommitted ==
    [][(lastOp'.op \in {"timer", "import"} /\ Parse(ValidatedText).ok) =>
           /\ topology' = [logical |-> Get(Parse(ValidatedText).value).logical,
                           nodes |-> Get(Parse(ValidatedText).value).nodes]
           /\ editor'.error = NoError
           /\ editor'.isValid
           /\ ~editor'.isDirty
           /\ lastOp'.op = "import" => timers' = timers]_vars

\* C13's case: import has committed a typed text while its timer still waits
C13_Witness ==
    /\ lastOp.op = "import" /\ lastOp.case = "accepted"
    /\ timers.pending # {}
    /\ \E t \in timers.pending : t.text.kind = "hand" /\ Get(t.text.doc) = topology
    /\ ~editor.isDirty

\* C14: export, from a clean, dirty or invalid editor, sets the text to the
\* serialization of the current model, clears the error and leaves the editor
\* clean, and does not change the model.
C14_ExportResetsToModel ==
    [][lastOp'.op = "export" =>
           /\ editor'.yamlText = Dump(topology)
           /\ editor'.error = NoError
           /\ editor'.isValid
           /\ ~editor'.isDirty
           /\ topology' = topology]_vars

\* C14's case: export has just been taken from an invalid editor
C14_Witness ==
    /\ lastOp.op = "export" /\ lastOp.case = "invalid"
    /\ editor.yamlText = Dump(topology)
    /\ editor.isValid

\* C15: reset is offered only while the editor is invalid; it replaces the
\* text with the last known-valid text, clears the error, returns the editor
\* to clean and does not change the model.
C15_ResetRestoresLastValid ==
    [][lastOp'.op = "reset" =>
           /\ ~editor.isValid
           /\ editor'.yamlText = editor.lastValidYaml
           /\ editor'.error = NoError
           /\ editor'.isValid
           /\ ~editor'.isDirty
           /\ topology' = topology]_vars

\* C15, with the text that reset leaves: the serialization of the current model
C15_ResetShowsModel ==
    [][lastOp'.op = "reset" =>
           /\ ~editor.isValid
           /\ editor'.yamlText = Dump(topology)
           /\ editor'.error = NoError
           /\ editor'.isValid
           /\ ~editor'.isDirty
           /\ topology' = topology]_vars

\* C15, when the model is still the one the last known-valid text was made of
C15_ResetRestoresLastValidOfModel ==
    [][(lastOp'.op = "reset" /\ editor.lastValidYaml = Dump(topology)) =>
           /\ ~editor.isValid
           /\ editor'.yamlText = editor.lastValidYaml
           /\ editor'.error = NoError
           /\ editor'.isValid
           /\ ~editor'.isDirty
           /\ topology' = topology]_vars

----------------------------------------------------------------------------
(* Claims about the drag gesture, checked under SpecDrag *)

\* the owner the dragged entity was drawn under, as a position in the topology
\* (0 when no node has that address any more)
CapturedOwner(dr) == FindNode(topology.nodes, Get(dr.d.parentId))

\* the gesture dr, undisturbed by any render since it started, has its entity
\* where the pointer is, within the capture radius of the node at position b
ReleasedOn(dr, b) ==
    /\ dr.live
    /\ dr.pos = dr.fpos
    /\ Within(MainPos(topology.nodes[b].connection), dr.pos)

\* the gesture dr drags the only sink of its owner
DragsOnlySink(dr) ==
    /\ dr.d.nodeType = "sink"
    /\ CapturedOwner(dr) # 0
    /\ Len(Items(topology.nodes[CapturedOwner(dr)].sinks)) = 1
    /\ dr.d.parentIndex = Some(0)

\* C3: for distinct nodes A and B where A owns exactly one sink s1, dragging
\* s1's render entity and releasing it within the capture radius of B leaves
\* A without a sinks field and B with the sinks it had followed by s1.
C3_DropMovesOnlySink ==
    [][(lastOp'.op = "dragEnd" /\ IsPresent(drag) /\ DragsOnlySink(Get(drag))) =>
           LET dr == Get(drag)
               a == CapturedOwner(dr)
               old == topology.nodes
               new == topology'.nodes
           IN \A b \in 1..Len(old) :
                  (b # a /\ ReleasedOn(dr, b)) =>
                      /\ Len(new) = Len(old)
                      /\ new[a].sinks = Absent
                      /\ new[b].sinks = Some(Append(Items(old[b].sinks), old[a].sinks[1][1]))]_vars

\* C3, for an owner whose address has no '-'
C3_DropMovesOnlySinkPlainOwner ==
    [][(/\ lastOp'.op = "dragEnd" /\ IsPresent(drag) /\ DragsOnlySink(Get(drag))
        /\ ~Includes(Get(Get(drag).d.parentId), Dash)) =>
           LET dr == Get(drag)
               a == CapturedOwner(dr)
               old == topology.nodes
               new == topology'.nodes
           IN \A b \in 1..Len(old) :
                  (b # a /\ ReleasedOn(dr, b)) =>
                      /\ Len(new) = Len(old)
                      /\ new[a].sinks = Absent
                      /\ new[b].sinks = Some(Append(Items(old[b].sinks), old[a].sinks[1][1]))]_vars

\* the topology no longer has the entity of gesture dr where the gesture took
\* it from: its owner is gone, or the owner's list has something else, or
\* nothing, at the index
Stale(dr) ==
    LET kind == dr.d.nodeType
        a == CapturedOwner(dr)
        now == IF a = 0 THEN Undefined
               ELSE At(Items(ListOf(topology.nodes[a], kind)), Get(dr.d.parentIndex))
    IN \/ a = 0
       \/ now = Undefined
       \/ EntityName(kind, now) # dr.d.connection

\* C10: when the model has changed between the start of a drag and the
\* handling of its reassignment request, so that the captured owner is gone or
\* does not hold the dragged entity at the captured index, the request leaves
\* the model as it is and no error shows.
C10_StaleRequestIsIgnored ==
    [][(lastOp'.op = "dragEnd" /\ lastOp'.case = "request" /\ Stale(Get(drag))) =>
           /\ topology' = topology
           /\ alerted' = NoAlert
           /\ ~RenderThrows(topology')]_vars

\* C10, when it is the owner that is gone
C10_RequestOfDeletedOwnerIsIgnored ==
    [][(/\ lastOp'.op = "dragEnd" /\ lastOp'.case = "request"
        /\ CapturedOwner(Get(drag)) = 0
        /\ ~Includes(Get(Get(drag).d.parentId), Dash)) =>
           /\ topology' = topology
           /\ alerted' = NoAlert]_vars

----------------------------------------------------------------------------
(* Claims about selection, checked under SpecSelect *)

\* what the panel presents as selected in the state a step leads to
PresentedNext == Presented(topology', selectedNode', selectedNodeInfo')

\* C11: after a reassignment that succeeds the selection state is none: the
\* panel presents no processing node, no source and no sink as selected.
C11_ReassignClearsSelection ==
    [][(lastOp'.op = "reassign" /\ lastOp'.case = "valid") =>
           PresentedNext.view = "none"]_vars

\* C11, of selectedNodeInfo alone and for owners whose address has no '-':
\* the handler sets it to null
C11_ReassignClearsSelectionInfo ==
    [][(lastOp'.op = "reassign" /\ lastOp'.case = "valid"
        /\ ~Includes(lastOp'.a, Dash)) =>
           selectedNodeInfo' = NoSelection]_vars

\* C11, for owners whose address has no '-'
C11_ReassignClearsSelectionPlainOwner ==
    [][(lastOp'.op = "reassign" /\ lastOp'.case = "valid"
        /\ ~Includes(lastOp'.a, Dash)) =>
           PresentedNext.view = "none"]_vars

\* what C16 says of a click on the render entity of id `id`: a processing node
\* becomes processingSelected(id), with the node of the topology as the selected
\* node; a source or sink becomes the selection of its kind that names its
\* owner in the topology, its name and its position in the owner's list
ClickSelects(id, kind, i) ==
    IF kind = "main"
    THEN /\ selectedNodeInfo' = MainSelection(id)
         /\ Exists(topology.nodes, id)
         /\ selectedNode' = Some(topology.nodes[FindNode(topology.nodes, id)])
         /\ PresentedNext = View("main", id, NoIndex)
    ELSE \E n \in 1..Len(topology.nodes) :
             LET owner == topology.nodes[n]
                 list == Items(ListOf(owner, kind))
             IN /\ i < Len(list)
                /\ EntityId(owner.connection, kind, i) = id
                /\ IsPresent(selectedNodeInfo')
                /\ Get(selectedNodeInfo').type = kind
                /\ Get(selectedNodeInfo').parentId = owner.connection
                /\ Get(selectedNodeInfo').name = EntityName(kind, list[i + 1])
                /\ Get(selectedNodeInfo').index = i
                /\ PresentedNext.view = kind
                /\ PresentedNext.owner = owner.connection

C17_BackSelectsOwner ==
    [][lastOp'.op = "back" =>
           LET ownerId == Get(selectedNodeInfo).parentId
           IN /\ Get(selectedNodeInfo).type \in Kinds
              /\ selectedNodeInfo' = MainSelection(ownerId)
              /\ Exists(topology.nodes, ownerId)
              /\ selectedNode' = Some(topology.nodes[FindNode(topology.nodes, ownerId)])
              /\ PresentedNext = View("main", ownerId, NoIndex)]_vars

\* C17's case: Back has just been taken from a sink that was moved to node b
C17_Witness ==
    /\ lastOp.op = "back" /\ lastOp.kind = "sink"
    /\ selectedNodeInfo = MainSelection(ConnB)
    /\ IsPresent(selectedNode)
    /\ Get(selectedNode).connection = ConnB
    /\ IsPresent(Get(selectedNode).sinks)

\* the positions (0-based) of the owner's current list of the selection's kind
\* whose element carries the selected name
NamedAs(sel) ==
    LET list == Items(ListOf(topology.nodes[FindNode(topology.nodes, sel.parentId)],
                             sel.type))
    IN {j \in 0..(Len(list) - 1) : EntityName(sel.type, list[j + 1]) = sel.name}

\* a source or sink is selected and its owner is a node of the topology
EntitySelected ==
    /\ Alive
    /\ IsPresent(selectedNodeInfo)
    /\ Get(selectedNodeInfo).type \in Kinds
    /\ Exists(topology.nodes, Get(selectedNodeInfo).parentId)

\* C18: a source / sink selection (ownerId, name, index) is resolved against
\* the current topology: the entity shown is the element of the owner's
\* current list that carries the selected name, and when several do, the one
\* at the selected index.
C18_ResolvesByNameThenIndex ==
    EntitySelected =>
        LET sel == Get(selectedNodeInfo)
            shown == Presented(topology, selectedNode, selectedNodeInfo)
        IN /\ NamedAs(sel) = {} => shown.view = "notfound"
           /\ NamedAs(sel) # {} =>
                  /\ shown.view = sel.type
                  /\ shown.owner = sel.parentId
                  /\ shown.index \in NamedAs(sel)
           /\ sel.index \in NamedAs(sel) => shown.index = sel.index

\* C18 without the tie-break: the entity shown is the first of the owner's
\* current list that carries the selected name
C18_ResolvesFirstOfName ==
    EntitySelected =>
        LET sel == Get(selectedNodeInfo)
            shown == Presented(topology, selectedNode, selectedNodeInfo)
        IN /\ NamedAs(sel) = {} => shown.view = "notfound"
           /\ NamedAs(sel) # {} =>
                  /\ shown.view = sel.type
                  /\ shown.owner = sel.parentId
                  /\ shown.index \in NamedAs(sel)
                  /\ \A j \in NamedAs(sel) : shown.index <= j

----------------------------------------------------------------------------
(* Claims about the release of a drag, checked under SpecRelease *)

\* the processing nodes of the gesture's render, other than the owner of the
\* dragged entity, that lie within the capture radius of the entity
Candidates(dr) ==
    {j \in 1..Len(dr.nodes) :
        /\ dr.nodes[j].nodeType = "main"
        /\ dr.nodes[j].id # Get(dr.d.parentId)
        /\ Within(dr.nodes[j].pos, dr.pos)}

\* those of the candidates that no other candidate is nearer than
Nearest(dr) ==
    {j \in Candidates(dr) :
        \A k \in Candidates(dr) :
            Dist2(dr.nodes[j].pos, dr.pos) <= Dist2(dr.nodes[k].pos, dr.pos)}

\* C12: on the release of a dragged source or sink a reassignment request is
\* emitted if and only if a processing node other than the entity's owner
\* lies within the capture radius of the release position; its target is the
\* nearest such node, the one highlighted during the drag, its owner and index
\* are the entity's owner and position recorded at drag start; the capture
\* radius is larger than the visual radius of a processing node.
C12_ReleaseTargetsNearest ==
    [][lastOp'.op = "dragEnd" =>
           LET dr == Get(drag)
               request == Request(dr.d, dr.pos, dr.nodes)
           IN /\ IsPresent(request) <=> Candidates(dr) # {}
              /\ (lastOp'.case = "request") <=> IsPresent(request)
              /\ IsPresent(request) =>
                     /\ \E j \in Nearest(dr) : Get(request).targetNodeId = dr.nodes[j].id
                     /\ Some(Get(request).targetNodeId)
                            = Highlighted(dr.d, dr.pos, dr.nodes)
                     /\ Get(request).sourceNodeId
                            = EntityId(Get(dr.d.parentId), dr.d.nodeType,
                                       Get(dr.d.parentIndex))
                     /\ Get(request).nodeType = dr.d.nodeType
              /\ CaptureRadius > NodeRadius]_vars

\* C12, for an owner whose address has no '-'
C12_ReleaseTargetsNearestPlainOwner ==
    [][(lastOp'.op = "dragEnd" /\ ~Includes(Get(Get(drag).d.parentId), Dash)) =>
           LET dr == Get(drag)
               request == Request(dr.d, dr.pos, dr.nodes)
           IN /\ IsPresent(request) <=> Candidates(dr) # {}
              /\ IsPresent(request) =>
                     /\ \E j \in Nearest(dr) : Get(request).targetNodeId = dr.nodes[j].id
                     /\ Some(Get(request).targetNodeId)
                            = Highlighted(dr.d, dr.pos, dr.nodes)]_vars

\* C12 with the target that dragended takes, for an owner whose address has no
\* '-': the first candidate in the order of the nodes
C12_ReleaseTargetsFirstPlainOwner ==
    [][(lastOp'.op = "dragEnd" /\ ~Includes(Get(Get(drag).d.parentId), Dash)) =>
           LET dr == Get(drag)
               request == Request(dr.d, dr.pos, dr.nodes)
           IN /\ IsPresent(request) <=> Candidates(dr) # {}
              /\ (lastOp'.case = "request") <=> IsPresent(request)
              /\ IsPresent(request) =>
                     /\ \E j \in Candidates(dr) :
                            /\ Get(request).targetNodeId = dr.nodes[j].id
                            /\ \A k \in Candidates(dr) : j <= k
                     /\ Get(request).sourceNodeId
                            = EntityId(Get(dr.d.parentId), dr.d.nodeType,
                                       Get(dr.d.parentIndex))
                     /\ Get(request).nodeType = dr.d.nodeType
              /\ CaptureRadius > NodeRadius]_vars

----------------------------------------------------------------------------
(* Claims about the warning of a source without a schema, checked under
   SpecSchema *)

\* the sources the graph shows
SourceEntities == {k \in 1..Len(graph.nodes) : graph.nodes[k].nodeType = "physical"}

\* the warning treatment: pattern fill, black border of width 2
Warned(T, d) ==
    /\ Fill(T, d) = WarningPattern
    /\ Stroke(T, d) = "#000"
    /\ StrokeWidth(T, d) = 2

\* the logical name of the source is the name of no schema of the topology
Unmatched(T, d) ==
    \A k \in 1..Len(Items(T.logical)) :
        Items(T.logical)[k].name # Get(SourceOf(T, d)).logical

WarnsUnmatched ==
    \A k \in SourceEntities :
        Warned(topology, graph.nodes[k]) <=> Unmatched(topology, graph.nodes[k])

\* adding a schema changes nothing but the schema list, and the render that
\* follows shows no source of that name with the warning
AddingRemovesWarning ==
    AddLogicalSchema =>
        /\ topology'.nodes = topology.nodes
        /\ \A k \in 1..Len(graph'.nodes) :
               LET d == graph'.nodes[k]
               IN (d.nodeType = "physical"
                   /\ Get(SourceOf(topology', d)).logical = Get(lastOp'.item).name)
                  => ~Warned(topology', d)

\* a source shown with the warning is selected by a click and taken by a drag
WarningBlocksNothing ==
    \A k \in SourceEntities :
        LET d == graph.nodes[k]
        IN Warned(topology, d) =>
              /\ ENABLED (ClickEntity /\ lastOp'.a = d.id
                          /\ selectedNodeInfo' = GraphSelection(topology, d).selection)
              /\ drag = NoDrag => ENABLED (DragStart /\ Get(drag').d = d)

\* C19: on every render a source is shown with the warning treatment if and
\* only if its logical name is the name of no schema of the topology; adding
\* a schema of the missing name removes the warning on the next render
\* without any other change of the model; the warning never prevents
\* selecting or dragging the source.
C19_WarningIffNoSchema ==
    /\ []WarnsUnmatched
    /\ [][AddingRemovesWarning]_vars
    /\ []WarningBlocksNothing

\* C19, for sources that have a name: the warning is shown if and only if
\* no schema has the name, adding the schema removes it, and it blocks nothing
C19_WarningIffNoSchemaOfNamedSource ==
    /\ [](\A k \in SourceEntities :
             Get(SourceOf(topology, graph.nodes[k])).logical # ""
             => (Warned(topology, graph.nodes[k])
                 <=> Unmatched(topology, graph.nodes[k])))
    /\ [][AddingRemovesWarning]_vars
    /\ []WarningBlocksNothing

\* a schema was added whose name a source shown with the warning had, and the
\* source is shown in the schema's colour
C19_Witness ==
    /\ lastOp.op = "addSchema"
    /\ \E k \in SourceEntities :
           /\ Get(SourceOf(topology, graph.nodes[k])).logical = Get(lastOp.item).name
           /\ Get(lastOp.item).name # ""
           /\ lastOp.index = Len(Get(topology.logical)) - 1
           /\ \A m \in 1..lastOp.index : Get(topology.logical)[m].name # Get(lastOp.item).name
           /\ Fill(topology, graph.nodes[k]) = SchemaColorMap(topology.logical)[Get(lastOp.item).name]

\* a source without a name is shown in the default colour while no schema has
\* the empty name
C19_UnnamedSourceIsNotWarned ==
    \E k \in SourceEntities :
        /\ Get(SourceOf(topology, graph.nodes[k])).logical = ""
        /\ Unmatched(topology, graph.nodes[k])
        /\ Fill(topology, graph.nodes[k]) = DefaultGreen

----------------------------------------------------------------------------
(* Claims about the colours of the schemas, checked under SpecColours *)

\* the list with the entries at k and k + 1 exchanged
Exchanged(list, k) == [list EXCEPT ![k] = list[k + 1], ![k + 1] = list[k]]

\* the orders the entries of a list are tried in: every order of a short
\* list, and of a long one every exchange of two neighbours (of which every
\* order is made)
Rearranged(list) ==
    IF Len(list) <= MaxSchemas
    THEN {[k \in 1..Len(list) |-> list[p[k]]] : p \in Permutations(1..Len(list))}
    ELSE {Exchanged(list, k) : k \in 1..(Len(list) - 1)}

SameColours(list) ==
    \A q \in Rearranged(list) : SchemaColorMap(Some(q)) = SchemaColorMap(Some(list))

\* two schemas whose names differ and compare equal
EquivalentNames(list) ==
    \E j, k \in 1..Len(list) :
        /\ list[j].name # list[k].name
        /\ LocaleCompare[list[j].name, list[k].name] = 0

\* C20: the colours of the schemas are independent of the order of the list:
\* on every render, each schema name has the colour it has under any other
\* order of the same schemas.
C20_ColoursIgnoreOrder == SameColours(Items(topology.logical))

\* C20, for lists in which no two different names are canonically equivalent
C20_ColoursIgnoreOrderOfDistinctWords ==
    ~EquivalentNames(Items(topology.logical)) => SameColours(Items(topology.logical))

\* the two spellings of one word are the schemas: each has the first colour
\* of the palette when it comes last, the second when it comes first
C20_SpellingsSwapColours ==
    /\ Len(Items(topology.logical)) = 2
    /\ Get(topology.logical)[1].name = NameE9
    /\ Get(topology.logical)[2].name = NameE301
    /\ SchemaColorMap(topology.logical)[NameE9] = ColorPalette(0)
    /\ SchemaColorMap(Some(Exchanged(Get(topology.logical), 1)))[NameE9] = ColorPalette(1)

\* the palette is used up and a schema beyond it has the colour made from
\* its name
C20_Witness ==
    /\ Len(Items(topology.logical)) = PaletteSize + 2
    /\ lastOp.op = "addSchema"
    /\ \E name \in SchemaNames :
           SchemaColorMap(topology.logical)[name] = GetLogicalSchemaColor(name)
    /\ \E name \in Range(PaletteNames) :
           SchemaColorMap(topology.logical)[name].from = "palette"

----------------------------------------------------------------------------
(* Claims about the text of the model, checked under SpecRoundTrip *)

\* every element of every list is there
WellFormed(T) ==
    \A j \in 1..Len(T.nodes), kind \in Kinds :
        \A k \in 1..Len(Items(ListOf(T.nodes[j], kind))) :
            Items(ListOf(T.nodes[j], kind))[k] \notin {Undefined, NullItem}

\* a commit (import, or a timer firing) of the text that is the dump of the
\* model leaves the model as it is
CommitOfDumpKeepsModel ==
    (lastOp'.op \in {"timer", "import"} /\ ValidatedText = Dump(topology)) =>
        topology' = topology

----------------------------------------------------------------------------
(* Claims about the nodes of the model, checked under SpecEditor *)

\* C22: in every reachable state the nodes of the model are a list, possibly
\* empty, and never another value: after every commit from the text editor
\* and after every handler that changes the model.
C22_NodesIsAList == IsList(topology.nodes)

\* C22, but for the commit of a text whose nodes is no list: the nodes are a
\* list unless such a text was the last thing committed, and no handler of the
\* property panel and no rejected text makes them anything else
C22_NodesIsAListButForTypedScalar ==
    /\ [](~IsList(topology.nodes) =>
             lastOp.op \in {"timer", "import"} /\ lastOp.case = "accepted")
    /\ [][(IsList(topology.nodes) /\ ~IsList(topology'.nodes)) =>
             ValidatedText = ScalarNodesText]_vars

\* the text `nodes: []` has been committed: the model has an empty list
C22_EmptyListIsKept ==
    /\ lastOp.op \in {"timer", "import"} /\ lastOp.case = "accepted"
    /\ topology.nodes = <<>>

----------------------------------------------------------------------------
(* Claims about adding a source or sink, checked under Spec *)

\* a step of handleAddSource / handleAddSink whose owner exists: the owner's
\* list of the kind is the old one (none counting as empty) with the entity
\* at the end, and nothing else of the topology differs
AppendsToOwner ==
    (lastOp'.op = "add" /\ lastOp'.case = "valid") =>
        LET k == FindNode(topology.nodes, lastOp'.a)
            kind == lastOp'.kind
        IN /\ k # 0
           /\ topology'.logical = topology.logical
           /\ Len(topology'.nodes) = Len(topology.nodes)
           /\ \A j \in 1..Len(topology.nodes) :
                  j # k => topology'.nodes[j] = topology.nodes[j]
           /\ ListOf(topology'.nodes[k], kind) =
                  Some(Append(Items(ListOf(topology.nodes[k], kind)), Get(lastOp'.item)))
           /\ topology'.nodes[k] =
                  SetList(topology.nodes[k], kind, ListOf(topology'.nodes[k], kind))

\* a step of the add handlers whose owner is the connection of no node
AddToMissingOwnerIsNoOp ==
    (lastOp'.op = "add" /\ lastOp'.case = "missing") => topology' = topology

\* C23: addSource / addSink append the entity as the last element of the
\* owner's list of that kind, creating the list when it is absent, and change
\* nothing else; when no node has the connection the topology is unchanged.
C23_AddAppendsToOwner == [][AppendsToOwner /\ AddToMissingOwnerIsNoOp]_vars

\* C23's case: an entity was added behind one the owner had already
C23_Witness ==
    /\ lastOp.op = "add" /\ lastOp.case = "valid"
    /\ LET list == ListAt(topology.nodes, lastOp.a, lastOp.kind)
       IN Len(list) = 2 /\ list[2] = Get(lastOp.item) /\ list[1] # list[2]

----------------------------------------------------------------------------
(* Claims about structural violations, checked under Spec and SpecLinks *)

\* a step of handleRemoveSource / handleRemoveSink whose index is no position
\* of the owner's list
RemoveOutsideList == lastOp'.op = "remove" /\ lastOp'.case = "range"

\* a step of handleAddLink naming a node that does not exist, or a link the
\* holder has already
RefusedLink == lastOp'.op = "addLink" /\ lastOp'.case \in {"missing", "duplicate"}

\* C24: every structural violation - a link whose source or target names no
\* node, a duplicate link, a removal at an index that is not in the owner's
\* list - is reported to the user and aborted with the topology left exactly
\* as it was.
C24_ViolationsReportedAndAborted ==
    [][(RemoveOutsideList \/ RefusedLink) =>
           (alerted' # NoAlert /\ topology' = topology)]_vars

\* C24 without the report of the removal: a removal at an index that is not
\* in the list leaves the topology as it was
C24_RemoveOutsideListChangesNothing ==
    [][RemoveOutsideList => topology' = topology]_vars

\* C24 for the links alone (SpecLinks): a refused link raises an alert and
\* leaves the topology as it was
C24_RefusedLinkIsReportedAndAborted ==
    [][RefusedLink => (alerted' # NoAlert /\ topology' = topology)]_vars

\* C24's failing case: a removal outside the list has happened and no
\* notification is shown
C24_SilentRemoveOutsideList ==
    lastOp.op = "remove" /\ lastOp.case = "range" /\ alerted = NoAlert

\* C24's case for the links: a refused link has raised its alert
C24_RefusedLinkAlerted ==
    lastOp.op = "addLink" /\ lastOp.case \in {"missing", "duplicate"} /\ alerted # NoAlert

----------------------------------------------------------------------------
(* Actions on the model with the render that follows each *)

ShownAddSource == Add("physical") /\ Rendered
ShownAddSink == Add("sink") /\ Rendered
ShownRemoveSource == Remove("physical") /\ Rendered
ShownRemoveSink == Remove("sink") /\ Rendered
ShownDeleteNode == Alive /\ DeleteNodeRequest /\ Rendered

\* two nodes, the first with a sink, drawn
InitRender ==
    /\ topology = [logical |-> Absent,
                   nodes |-> <<[NewNode(ConnA) EXCEPT !.sinks = Some(<<SinkS1>>)],
                              NewNode(ConnAB)>>]
    /\ selectedNodeInfo = NoSelection
    /\ selectedNode = NoNode
    /\ editor = Unmounted
    /\ timers = NoTimers
    /\ graph = Regenerated(topology, NoGraph)
    /\ drag = NoDrag
    /\ alerted = NoAlert
    /\ lastOp = NoOp

NextRender ==
    \/ ShownAddSource
    \/ ShownAddSink
    \/ ShownRemoveSource
    \/ ShownRemoveSink
    \/ ShownDeleteNode

SpecRender == InitRender /\ [][NextRender]_vars

----------------------------------------------------------------------------
(* Claims about the render entities, checked under SpecRender *)

\* the render entities of a kind with an owner and a position in its list
EntitiesOf(g, kind, owner, index) ==
    {e \in 1..Len(g.nodes) :
        /\ g.nodes[e].nodeType = kind
        /\ g.nodes[e].parentId = Some(owner)
        /\ g.nodes[e].parentIndex = Some(index)}

\* the render entities of a processing node
MainEntitiesOf(g, connection) ==
    {e \in 1..Len(g.nodes) :
        g.nodes[e].nodeType = "main" /\ g.nodes[e].id = connection}

\* one entity per processing node, per source and per sink of T, none
\* besides, their ids pairwise distinct
Depicts(g, T) ==
    /\ \A j \in 1..Len(T.nodes) :
           /\ Cardinality(MainEntitiesOf(g, T.nodes[j].connection)) = 1
           /\ \A kind \in Kinds :
                  \A index \in 0..(Len(Items(ListOf(T.nodes[j], kind))) - 1) :
                      Cardinality(EntitiesOf(g, kind, T.nodes[j].connection, index)) = 1
    /\ Len(g.nodes) = Len(T.nodes) + Total(T.nodes, "physical") + Total(T.nodes, "sink")
    /\ \A e, f \in 1..Len(g.nodes) : g.nodes[e].id = g.nodes[f].id => e = f

\* C25: after every structural change of the model, the removal of the last
\* processing node included, the render graph has exactly one entity per
\* processing node, per source and per sink of the model, with pairwise
\* distinct ids, and none for anything that is no longer in the model.
C25_RenderDepictsModel == Depicts(graph, topology)

\* C25 for the models that have a processing node
C25_RenderDepictsModelWithNodes ==
    Len(topology.nodes) # 0 => Depicts(graph, topology)

\* C25's failing case: the last node was deleted and its entity is still drawn
C25_LastNodeStaysDrawn ==
    /\ lastOp.op = "deleteNode" /\ lastOp.case = "valid"
    /\ Len(topology.nodes) = 0
    /\ Len(graph.nodes) # 0

\* C25's case: a node with a sink was deleted while another node remains
C25_Witness ==
    /\ lastOp.op = "deleteNode" /\ lastOp.case = "valid"
    /\ Len(topology.nodes) = 1
    /\ Total(topology.nodes, "sink") = 0
    /\ Len(graph.nodes) = 1

----------------------------------------------------------------------------
(* Actions on links and nodes with the render that follows each *)

ShownAddLink == Alive /\ AddLinkRequest /\ Rendered
ShownDeleteLink == Alive /\ DeleteLinkRequest /\ Rendered

\* two nodes, the first with a source and a sink, drawn
InitPeers ==
    /\ topology = [logical |-> Absent,
                   nodes |-> <<[NewNode(ConnA) EXCEPT
                                   !.physical = Some(<<CHOOSE x \in Sources : TRUE>>),
                                   !.sinks = Some(<<SinkS1>>)],
                              NewNode(ConnAB)>>]
    /\ selectedNodeInfo = NoSelection
    /\ selectedNode = NoNode
    /\ editor = Unmounted
    /\ timers = NoTimers
    /\ graph = Regenerated(topology, NoGraph)
    /\ drag = NoDrag
    /\ alerted = NoAlert
    /\ lastOp = NoOp

NextPeers ==
    \/ ShownAddLink
    \/ ShownDeleteLink
    \/ ShownDeleteNode

SpecPeers == InitPeers /\ [][NextPeers]_vars

----------------------------------------------------------------------------
(* Claims about the render links, checked under SpecPeers *)

\* the render links with these ends and one of these directions
LinksBetween(g, source, target, directions) ==
    {l \in 1..Len(g.links) :
        /\ g.links[l].source = source
        /\ g.links[l].target = target
        /\ g.links[l].direction \in directions}

\* no list of peers names a node twice
NoDuplicatePeers(T) ==
    \A j \in 1..Len(T.nodes), type \in LinkTypes :
        LET list == Items(Peers(T.nodes[j], type))
        IN \A a, b \in 1..Len(list) : list[a] = list[b] => a = b

\* the node s has t among its downstreams
HasDownstream(T, s, t) ==
    \E k \in 1..Len(T.nodes) :
        /\ T.nodes[k].connection = s
        /\ Includes(Items(Peers(T.nodes[k], "downstream")), t)

\* an upstream render link s -> t only when s.downstreams does not hold t
UpstreamOnlyWithoutDownstream ==
    \A l \in 1..Len(graph.links) :
        graph.links[l].direction = "upstream" =>
            ~HasDownstream(topology, graph.links[l].source, graph.links[l].target)

\* at most one peer link per ordered pair of ends
OnePeerLinkPerPair ==
    NoDuplicatePeers(topology) =>
        \A l, m \in 1..Len(graph.links) :
            (/\ graph.links[l].direction \in LinkTypes
             /\ graph.links[m].direction \in LinkTypes
             /\ graph.links[l].source = graph.links[m].source
             /\ graph.links[l].target = graph.links[m].target) => l = m

\* every downstream entry has exactly one link, downstream, and every source
\* and sink exactly one link with its owner
EntriesAndOwnershipsLinked ==
    \A j \in 1..Len(topology.nodes) :
        LET node == topology.nodes[j]
            down == Items(Peers(node, "downstream"))
        IN /\ NoDuplicatePeers(topology) =>
                  \A i \in 1..Len(down) :
                      /\ Cardinality(LinksBetween(graph, node.connection, down[i],
                                                  {"downstream"})) = 1
                      /\ LinksBetween(graph, node.connection, down[i], {"upstream"}) = {}
           /\ \A i \in 0..(Len(Items(ListOf(node, "physical"))) - 1) :
                  Cardinality({l \in 1..Len(graph.links) :
                      \/ graph.links[l].source = EntityId(node.connection, "physical", i)
                      \/ graph.links[l].target = EntityId(node.connection, "physical", i)})
                  = 1
           /\ \A i \in 0..(Len(Items(ListOf(node, "sink"))) - 1) :
                  Cardinality({l \in 1..Len(graph.links) :
                      \/ graph.links[l].source = EntityId(node.connection, "sink", i)
                      \/ graph.links[l].target = EntityId(node.connection, "sink", i)})
                  = 1
           /\ \A i \in 0..(Len(Items(ListOf(node, "physical"))) - 1) :
                  Cardinality(LinksBetween(graph, EntityId(node.connection, "physical", i),
                                           node.connection, {"physical"})) = 1
           /\ \A i \in 0..(Len(Items(ListOf(node, "sink"))) - 1) :
                  Cardinality(LinksBetween(graph, node.connection,
                                           EntityId(node.connection, "sink", i),
                                           {"sink"})) = 1

\* C26: the render links hold an upstream link from s to t (s listed in
\* t.upstreams) only if s.downstreams does not contain t; so, when no peer
\* list has duplicate entries, there is at most one peer link per ordered
\* pair (s, t), while every downstream entry and every ownership relation
\* yields exactly one link.
C26_UpstreamSuppressedByDownstream ==
    /\ UpstreamOnlyWithoutDownstream
    /\ OnePeerLinkPerPair
    /\ EntriesAndOwnershipsLinked

\* C26's case: t lists s as upstream, s lists t as downstream, and the render
\* has the one link s -> t, as downstream
C26_Witness ==
    \E j, k \in 1..Len(topology.nodes) :
        LET s == topology.nodes[j].connection
            t == topology.nodes[k].connection
        IN /\ Includes(Items(Peers(topology.nodes[k], "upstream")), s)
           /\ Includes(Items(Peers(topology.nodes[j], "downstream")), t)
           /\ Cardinality(LinksBetween(graph, s, t, LinkTypes)) = 1
           /\ lastOp.op = "addLink" /\ lastOp.case = "valid"

\* an upstream entry without a matching downstream is drawn, as upstream
C26_UpstreamAloneIsDrawn ==
    \E k \in 1..Len(topology.nodes) :
        \E s \in Range(Items(Peers(topology.nodes[k], "upstream"))) :
            /\ ~HasDownstream(topology, s, topology.nodes[k].connection)
            /\ Cardinality(LinksBetween(graph, s, topology.nodes[k].connection,
                                        {"upstream"})) = 1

----------------------------------------------------------------------------
(* Claims about the pin of a dragged entity, checked under SpecDrag *)

\* dragstarted pins the entity where it is and restarts the simulation, a
\* tick takes the pinned entity to the pin, dragended leaves nothing pinned
GestureSteps ==
    /\ lastOp'.op = "dragStart" =>
           /\ IsPresent(drag') /\ Get(drag').live
           /\ Get(drag').fpos = Get(drag').d.pos
    /\ lastOp'.op = "dragged" =>
           /\ IsPresent(drag')
           /\ Get(drag').d = Get(drag).d
           /\ Get(drag').pos = Get(drag).pos
    /\ lastOp'.op = "tick" => Get(drag').pos = Get(drag').fpos
    /\ lastOp'.op = "dragEnd" => drag' = NoDrag

\* the simulation the dragged entity belongs to is running
SimulatedWhileDragged == IsPresent(drag) => Get(drag).live

\* C29: from drag-start until drag-end the dragged entity's position is
\* pinned to the most recent pointer position and no other entity is pinned;
\* after drag-end no entity is pinned; the simulation is kept running during
\* the drag and allowed to settle after it.
C29_PinnedAndSimulatedWhileDragged == []SimulatedWhileDragged /\ [][GestureSteps]_vars

\* C29 for the gestures during which the topology is not rendered again
C29_PinnedWhileRenderStays ==
    [][/\ GestureSteps
       /\ (IsPresent(drag) /\ Get(drag).live /\ IsPresent(drag') /\ topology' = topology)
              => Get(drag').live]_vars

\* C29's failing case: the render was replaced during the gesture, the pointer
\* has moved on and the entity of the gesture is where it was
C29_DragOutlivesItsSimulation ==
    /\ IsPresent(drag)
    /\ ~Get(drag).live
    /\ lastOp.op = "dragged"
    /\ Get(drag).fpos # Get(drag).pos

\* C29's case: the entity has followed the pointer and was released
C29_Witness ==
    /\ lastOp.op = "dragEnd"
    /\ drag = NoDrag

----------------------------------------------------------------------------
(* GraphVisualization: nodePositions, the cache of positions.  The graph of
   the specification below carries it as graph.positions, a set of
   [id, pos], at most one per id; the pos of an entity is where it is now. *)

Threshold == 5          \* ticked: Math.abs(existing.x - d.x) > 5
MaxDrift == 6           \* how far the simulation carries an entity from where it would rest

\* nodePositions[id], if any
CachedAt(positions, id) ==
    IF \E c \in positions : c.id = id
    THEN Some((CHOOSE c \in positions : c.id = id).pos)
    ELSE Absent

\* {...prev, [id]: {x, y}}
WithPosition(positions, id, pos) ==
    {c \in positions : c.id # id} \cup {[id |-> id, pos |-> pos]}

Abs(n) == IF n < 0 THEN -n ELSE n

\* the updater ticked gives setNodePositions for one entity, the test left out
SavedAlways(prev, d) == WithPosition(prev, d.id, d.pos)

\* the updater ticked gives setNodePositions for one entity: written when
\* nothing is cached or an axis differs by more than the threshold
Saved(prev, d) ==
    LET existing == CachedAt(prev, d.id)
    IN IF \/ ~IsPresent(existing)
          \/ Abs(Get(existing)[1] - d.pos[1]) > Threshold
          \/ Abs(Get(existing)[2] - d.pos[2]) > Threshold
       THEN WithPosition(prev, d.id, d.pos)
       ELSE prev

\* ticked: nodes.forEach over the updater, up to the j-th entity
RECURSIVE SavedAll(_, _, _)
SavedAll(prev, nodes, j) ==
    IF j = 0 THEN prev ELSE Saved(SavedAll(prev, nodes, j - 1), nodes[j])

\* the entities as the effect places them without looking into the cache
PlacedAfresh(nodes, positions) == nodes

\* existingPos: an entity whose id has a cached position starts there, any
\* other where the layout puts it
Placed(nodes, positions) ==
    [j \in 1..Len(nodes) |->
        IF IsPresent(CachedAt(positions, nodes[j].id))
        THEN [nodes[j] EXCEPT !.pos = Get(CachedAt(positions, nodes[j].id))]
        ELSE nodes[j]]

\* the render effect with the cache: the cache itself is only read
RegeneratedAt(T, g) ==
    IF Len(T.nodes) = 0 \/ RenderThrows(T) THEN g
    ELSE [nodes |-> Placed(Regenerated(T, g).nodes, g.positions),
          links |-> Regenerated(T, g).links,
          positions |-> g.positions]

\* the entity of the render with an id, 0 when there is none
EntityAt(nodes, id) ==
    IF \E j \in 1..Len(nodes) : nodes[j].id = id
    THEN CHOOSE j \in 1..Len(nodes) : nodes[j].id = id
    ELSE 0

\* where an entity would rest
Rest(e) == IF e.nodeType = "main" THEN MainPos(e.id) ELSE RestPos(Get(e.parentId))

----------------------------------------------------------------------------
(* Actions of the render with its cache of positions *)

\* what one tick moves a free entity by
Drifts == {<<6, 0>>}

\* where the pointer takes a sink of node a: a little aside and further
\* aside, out of every other node's reach
NudgePoints == {<<3, LinkDistance>>, <<20, LinkDistance>>}

Moved(nodes, j, pos) == [nodes EXCEPT ![j] = [@ EXCEPT !.pos = pos]]

\* a tick of the running simulation: the pinned entity goes to its pin, or a
\* free one drifts; ticked then saves the positions of all entities
PositionsTick ==
    /\ Alive
    /\ Len(graph.nodes) # 0
    /\ \/ /\ IsPresent(drag) /\ Get(drag).live
          /\ Get(drag).pos # Get(drag).fpos
          /\ LET moved == Moved(graph.nodes, EntityAt(graph.nodes, Get(drag).d.id),
                                Get(drag).fpos)
             IN graph' = [graph EXCEPT
                             !.nodes = moved,
                             !.positions = SavedAll(@, moved, Len(moved))]
          /\ drag' = Some([Get(drag) EXCEPT !.pos = Get(drag).fpos])
       \/ /\ \E j \in 1..Len(graph.nodes), delta \in Drifts :
                LET e == graph.nodes[j]
                    pos == <<e.pos[1] + delta[1], e.pos[2] + delta[2]>>
                    moved == Moved(graph.nodes, j, pos)
                IN /\ ~(IsPresent(drag) /\ Get(drag).live /\ Get(drag).d.id = e.id)
                   /\ Abs(pos[1] - Rest(e)[1]) <= MaxDrift
                   /\ graph' = [graph EXCEPT
                                    !.nodes = moved,
                                    !.positions = SavedAll(@, moved, Len(moved))]
          /\ UNCHANGED drag
    /\ lastOp' = Op("tick", "done", EmptyStr, EmptyStr, "sink", 0, Absent)
    /\ alerted' = NoAlert
    /\ UNCHANGED <<topology, selectedNodeInfo, selectedNode, editor, timers>>

Nudged == DraggedOver(NudgePoints)

\* dragended with its setNodePositions, and the render of the topology the
\* request has set
DragEndSaved ==
    /\ DragEndRequest
    /\ LET dr == Get(drag)
           saved == [graph EXCEPT !.positions = WithPosition(@, dr.d.id, dr.pos)]
       IN graph' = IF DragEndRenders THEN RegeneratedAt(topology', saved) ELSE saved

\* the Add Sink button of node a's panel, outside a gesture
PlacedAddSink ==
    /\ Alive
    /\ drag = NoDrag
    /\ Total(topology.nodes, "sink") < MaxSinks
    /\ AddEntity(ConnA, "sink", SinkS2)
    /\ lastOp' = Op("add", "valid", ConnA, EmptyStr, "sink", 0, Some(SinkS2))
    /\ graph' = RegeneratedAt(topology', graph)
    /\ UNCHANGED drag

\* the Remove button of the first sink of node a's panel, outside a gesture
PlacedRemoveSink ==
    /\ Alive
    /\ drag = NoDrag
    /\ InRange(topology.nodes, ConnA, "sink", 0)
    /\ RemoveEntity(ConnA, "sink", 0)
    /\ lastOp' = Op("remove", "valid", ConnA, EmptyStr, "sink", 0, Absent)
    /\ graph' = RegeneratedAt(topology', graph)
    /\ UNCHANGED drag

NothingCached == [nodes |-> <<>>, links |-> <<>>, positions |-> {}]

\* two nodes, the first with a sink, drawn for the first time
InitPositions ==
    /\ topology = [logical |-> Absent,
                   nodes |-> <<[NewNode(ConnA) EXCEPT !.sinks = Some(<<SinkS1>>)],
                              NewNode(ConnB)>>]
    /\ selectedNodeInfo = NoSelection
    /\ selectedNode = NoNode
    /\ editor = Unmounted
    /\ timers = NoTimers
    /\ graph = RegeneratedAt(topology, NothingCached)
    /\ drag = NoDrag
    /\ alerted = NoAlert
    /\ lastOp = NoOp

NextPositions ==
    \/ PositionsTick
    \/ DragStart
    \/ Nudged
    \/ DragEndSaved
    \/ PlacedAddSink
    \/ PlacedRemoveSink

SpecPositions == InitPositions /\ [][NextPositions]_vars

----------------------------------------------------------------------------
(* Claims about the cache of positions, checked under SpecPositions *)

\* a step that regenerates the render
Regenerates == lastOp'.op \in {"add", "remove"}

\* a regeneration starts every entity whose id has a cached position at that
\* position, and leaves the cache as it is
StartsAtCache ==
    Regenerates =>
        /\ \A j \in 1..Len(graph'.nodes) :
               LET existingPos == CachedAt(graph.positions, graph'.nodes[j].id)
               IN IsPresent(existingPos) => graph'.nodes[j].pos = Get(existingPos)
        /\ graph'.positions = graph.positions

OverwritesBeyondThreshold ==
    \A c \in graph.positions :
        LET now == Get(CachedAt(graph'.positions, c.id))
        IN now # c.pos =>
               \/ Abs(c.pos[1] - now[1]) > Threshold
               \/ Abs(c.pos[2] - now[2]) > Threshold

\* C28: a cached position of an entity id is overwritten only when no
\* position is cached for that id or the entity's current position differs
\* from the cached one by more than the pixel threshold (5) on at least one
\* axis, for every write to the cache, from a simulation tick or from a drag
\* release.
C28_OverwriteOnlyBeyondThreshold == [][OverwritesBeyondThreshold]_vars

\* C28 for the writes of ticked alone
C28_TickOverwritesOnlyBeyondThreshold ==
    [][lastOp'.op = "tick" => OverwritesBeyondThreshold]_vars

\* ticked has kept a cached position while the entity is elsewhere, within
\* the threshold
C28_TickKeepsWithinThreshold ==
    /\ lastOp.op = "tick"
    /\ \E j \in 1..Len(graph.nodes) :
           LET existing == CachedAt(graph.positions, graph.nodes[j].id)
           IN IsPresent(existing) /\ Get(existing) # graph.nodes[j].pos

----------------------------------------------------------------------------
(* App.tsx handlePropertyChange for the scalar fields of a source or sink, and
   the inputs of the panel of PropertyEditor that call it *)

ParserTypes == {"CSV", "JSON"}
SourceTypes == {"File", "TCP"}
SinkNames == {"s1", "s2", "s3"}
SinkTypes == {"Print", "File", "Kafka"}

\* list[index] = value on a copy, index 0-based and within the list
SetAt(list, index, value) == [list EXCEPT ![index + 1] = value]

\* {...source, logical: v} / parserConfig.type / sourceConfig.type, and
\* {...sink, name: v} / {...sink, type: v}
WithField(item, field, value) ==
    CASE field = "logical" -> [item EXCEPT !.logical = value]
      [] field = "parserType" -> [item EXCEPT !.parserType = value]
      [] field = "sourceType" -> [item EXCEPT !.sourceType = value]
      [] field = "name" -> [item EXCEPT !.name = value]
      [] field = "type" -> [item EXCEPT !.type = value]

\* the values an input of the panel can be changed to
FieldValues(T, field) ==
    CASE field = "logical" -> ExistingSchemas(T.logical)
      [] field = "parserType" -> ParserTypes
      [] field = "sourceType" -> SourceTypes
      [] field = "name" -> SinkNames
      [] field = "type" -> SinkTypes

FieldsOf(kind) ==
    IF kind = "physical" THEN {"logical", "parserType", "sourceType"} ELSE {"name", "type"}

\* the calls of onPropertyChange the panel of a source or sink can make: the
\* source's inputs pass the field and the text, the sink's inputs pass
\* `sinks[${sinkIndex}]`, sinkIndex found by name, and the changed sink
PanelChanges(T, node, info) ==
    LET shown == Presented(T, node, info)
    IN IF shown.view \notin Kinds THEN {}
       ELSE LET item == ListAt(T.nodes, shown.owner, shown.view)[shown.index + 1]
            IN UNION {{[property |-> IF shown.view = "physical" THEN field ELSE "sinks[]",
                        at |-> IF shown.view = "physical" THEN NoIndex ELSE shown.index,
                        field |-> field,
                        text |-> v,
                        value |-> WithField(item, field, v)] :
                          v \in {w \in FieldValues(T, field) :
                                    WithField(item, field, w) # item}} :
                      field \in FieldsOf(shown.view)}

\* the branch for a selected processing node (selectedNode is set): only
\* capacity, grpc, connection, physical, sinks, physical[i] and sinks[i] are
\* properties it knows; any other leaves the node as it is
ChangedOfNode(nodes, node, change) ==
    [j \in 1..Len(nodes) |->
        IF nodes[j].connection = node.connection /\ change.property = "sinks[]"
        THEN [nodes[j] EXCEPT !.sinks = Some(SetAt(Items(@), change.at, change.value))]
        ELSE nodes[j]]

\* the branches for a selected source or sink (selectedNode is null): the
\* element at the index of the selection, when the selection has one
ChangedOfEntity(nodes, info, change) ==
    [j \in 1..Len(nodes) |->
        LET list == ListOf(nodes[j], info.type)
        IN IF /\ nodes[j].connection = info.parentId
              /\ IsPresent(list)
              /\ info.index # NoIndex
           THEN IF info.type = "physical"
                THEN SetList(nodes[j], "physical",
                             Some(SetAt(Get(list), info.index,
                                        WithField(Get(list)[info.index + 1],
                                                  change.field, change.text))))
                ELSE IF /\ change.at = info.index
                        /\ info.index >= 0 /\ info.index < Len(Get(list))
                THEN SetList(nodes[j], "sink",
                             Some(SetAt(Get(list), info.index, change.value)))
                ELSE nodes[j]
           ELSE nodes[j]]

\* handlePropertyChange(property, value) for a change of the panel
PropertyChange(change) ==
    IF IsPresent(selectedNode)
    THEN LET updatedNodes == ChangedOfNode(topology.nodes, Get(selectedNode), change)
         IN /\ topology' = [topology EXCEPT !.nodes = updatedNodes]
            /\ selectedNode' =
                   IF Exists(updatedNodes, Get(selectedNode).connection)
                   THEN FoundNode(updatedNodes, Get(selectedNode).connection)
                   ELSE selectedNode
            /\ UNCHANGED selectedNodeInfo
    ELSE LET info == Get(selectedNodeInfo)
         IN /\ topology' = [topology EXCEPT
                                !.nodes = ChangedOfEntity(@, info, change)]
            /\ selectedNodeInfo' =
                   IF /\ info.type = "physical" /\ change.field = "logical"
                      /\ info.index # NoIndex
                      /\ \E j \in 1..Len(topology.nodes) :
                             /\ topology.nodes[j].connection = info.parentId
                             /\ IsPresent(topology.nodes[j].physical)
                   THEN Some([info EXCEPT !.name = change.text])
                   ELSE selectedNodeInfo
            /\ UNCHANGED selectedNode

\* an input of the panel of a source or sink is changed
ChangeField ==
    /\ Alive
    /\ \E change \in PanelChanges(topology, selectedNode, selectedNodeInfo) :
           LET shown == Presented(topology, selectedNode, selectedNodeInfo)
           IN /\ PropertyChange(change)
              /\ lastOp' = Op("change", "valid", shown.owner, <<change.field>>,
                              shown.view, shown.index, Some(change.value))
    /\ editor' = AfterRender(topology', editor)
    /\ alerted' = NoAlert
    /\ UNCHANGED timers
    /\ Rendered

\* node a owns a source and two sinks of different names; two schemas exist
PropertyNodes ==
    <<[NewNode(ConnA) EXCEPT !.physical = Some(<<CHOOSE x \in Sources : TRUE>>),
                             !.sinks = Some(<<SinkS1, SinkS2>>)],
      NewNode(ConnB)>>

InitProperty ==
    /\ topology = [logical |-> Some(<<LogicalSchema("orders"), LogicalSchema("stream")>>),
                   nodes |-> PropertyNodes]
    /\ selectedNodeInfo = NoSelection
    /\ selectedNode = NoNode
    /\ editor = Unmounted
    /\ timers = NoTimers
    /\ graph = Regenerated(topology, NoGraph)
    /\ drag = NoDrag
    /\ alerted = NoAlert
    /\ lastOp = NoOp

NextProperty ==
    \/ ClickEntity
    \/ ClickCanvas
    \/ ClickRow
    \/ Back
    \/ ChangeField

SpecProperty == InitProperty /\ [][NextProperty]_vars

----------------------------------------------------------------------------
(* Claims about the scalar fields of a source or sink, checked under
   SpecProperty *)

\* what the panel shows before the step
Shown == Presented(topology, selectedNode, selectedNodeInfo)

\* the nodes with the shown entity replaced by the changed one
NodesWithChange ==
    [j \in 1..Len(topology.nodes) |->
        IF topology.nodes[j].connection = Shown.owner
        THEN SetList(topology.nodes[j], Shown.view,
                     Some(SetAt(Items(ListOf(topology.nodes[j], Shown.view)),
                                Shown.index, Get(lastOp'.item))))
        ELSE topology.nodes[j]]

\* a change of a field changes exactly the shown entity, and the panel shows
\* that entity afterwards
EditsSelected ==
    lastOp'.op = "change" =>
        /\ topology' = [topology EXCEPT !.nodes = NodesWithChange]
        /\ Presented(topology', selectedNode', selectedNodeInfo') = Shown

\* the names of the list the shown entity is in are pairwise distinct
DistinctNames ==
    LET list == ListAt(topology.nodes, Shown.owner, Shown.view)
    IN \A a, b \in 1..Len(list) :
           EntityName(Shown.view, list[a]) = EntityName(Shown.view, list[b]) => a = b

\* C30: a scalar edit made while a source or sink is selected updates exactly
\* the selected entity in its owner's list and no other entity, whichever way
\* the entity was selected (by clicking its render entity or by picking it
\* from its owner's property list), and the entity stays selected after it.
C30_EditUpdatesSelectedAndKeepsIt == [][EditsSelected]_vars

\* C30 for an entity selected by a click on its render entity and shown by
\* the panel, its list without equal names, and every field but the name of
\* a sink
C30_EditOfClickedUpdatesAndKeepsIt ==
    [][(/\ ~IsPresent(selectedNode)
        /\ Shown.view \in Kinds
        /\ Shown.index = Get(selectedNodeInfo).index
        /\ DistinctNames
        /\ lastOp'.b # <<"name">>) => EditsSelected]_vars

\* C30's failing case: the source was picked from the list of its node, an
\* input of its panel was changed and the source is as it was
C30_EditOfPickedSourceIsLost ==
    /\ lastOp.op = "change" /\ lastOp.kind = "physical"
    /\ IsPresent(selectedNode)
    /\ ListAt(topology.nodes, lastOp.a, "physical")[lastOp.index + 1] # Get(lastOp.item)

\* C30's failing case: the name of a clicked sink was changed, the sink has
\* the new name and the panel no longer finds it
C30_RenamedSinkIsNotFound ==
    /\ lastOp.op = "change" /\ lastOp.kind = "sink" /\ lastOp.b = <<"name">>
    /\ ~IsPresent(selectedNode)
    /\ ListAt(topology.nodes, lastOp.a, "sink")[lastOp.index + 1] = Get(lastOp.item)
    /\ Shown.view = "notfound"

\* C30's case that holds: the parser type of a clicked source was changed
C30_ClickedSourceEdited ==
    /\ lastOp.op = "change" /\ lastOp.kind = "physical" /\ lastOp.b = <<"parserType">>
    /\ ~IsPresent(selectedNode)
    /\ ListAt(topology.nodes, lastOp.a, "physical")[lastOp.index + 1] = Get(lastOp.item)
    /\ Shown.view = "physical"

----------------------------------------------------------------------------
(* Claims about timers that outlive a button, checked under SpecEditor *)

\* a debounce timer has fired and its text passed validation
TimerCommits == lastOp'.op = "timer" /\ lastOp'.case = "accepted"

\* C31: whenever a debounce timer fires and commits to the model, the text it
\* commits is the text shown in the editor; after an import, export or reset
\* no timer armed by an earlier keystroke validates or commits the text that
\* was shown before that button.
C31_TimerCommitsShownText ==
    [][(lastOp'.op = "timer") => FiredTimer.text = editor.yamlText]_vars

\* C31, for the committing timer alone
C31_CommittingTimerCommitsShownText ==
    [][TimerCommits => FiredTimer.text = editor.yamlText]_vars

\* C31, while the editor is dirty (no button since the last keystroke and no
\* timer has committed): the firing timer holds the shown text
C31_TimerOfDirtyEditorHoldsShownText ==
    [][(lastOp'.op = "timer" /\ editor.isDirty) =>
           FiredTimer.text = editor.yamlText]_vars

\* the model holds what the add handler of the step before put into it
AddedIsPresent(T) ==
    /\ Exists(T.nodes, lastOp.a)
    /\ \E k \in 1..Len(ListAt(T.nodes, lastOp.a, lastOp.kind)) :
           ListAt(T.nodes, lastOp.a, lastOp.kind)[k] = Get(lastOp.item)

\* C32: no mutation of the model is lost; a mutation applied by another
\* trigger while the editor is dirty-typing, or between an import and the
\* firing of a timer still pending, is present in the model after that timer
\* has fired and committed.  Stated for a source or sink added in the step
\* before the commit.
C32_MutationSurvivesCommit ==
    [][(lastOp.op = "add" /\ lastOp.case = "valid" /\ TimerCommits) =>
           AddedIsPresent(topology')]_vars

\* C32, for the mutation applied while the editor is dirty-typing
C32_MutationWhileTypingSurvivesCommit ==
    [][(lastOp.op = "add" /\ lastOp.case = "valid" /\ editor.isDirty /\ TimerCommits) =>
           AddedIsPresent(topology')]_vars

\* C32, for the mutation applied while the editor is clean and a timer is
\* still pending (after an import or an export)
C32_MutationAfterImportSurvivesCommit ==
    [][(lastOp.op = "add" /\ lastOp.case = "valid" /\ ~editor.isDirty /\ TimerCommits) =>
           AddedIsPresent(topology')]_vars

\* the mutation is in the model until the timer fires
C32_MutationIsAppliedBeforeCommit ==
    (lastOp.op = "add" /\ lastOp.case = "valid") => AddedIsPresent(topology)

----------------------------------------------------------------------------
(* Nodes are added, deleted, linked and renamed while the graph is shown *)

MaxNodes == 2       \* processing nodes in the topology
MaxPeers == 1       \* peer references in the topology while nodes are renamed

ConnG == <<"g">>    \* an address no node of Init has as connection or grpc

\* checkPortConflicts on the form's connection and grpc: the first conflict
\* found, as the words of its message that tell it apart
PortConflicts(nodes, newNodeConnection, newNodeGrpc) ==
    IF newNodeConnection = newNodeGrpc
    THEN [hasConflict |-> TRUE, message |-> <<"cannot", "be", "the", "same">>]
    ELSE IF \E j \in 1..Len(nodes) : nodes[j].connection = newNodeConnection
    THEN [hasConflict |-> TRUE, message |-> <<"Connection", "already", "exists">>]
    ELSE IF \E j \in 1..Len(nodes) : nodes[j].grpc = newNodeGrpc
    THEN [hasConflict |-> TRUE, message |-> <<"GRPC", "already", "exists">>]
    ELSE IF \E j \in 1..Len(nodes) : nodes[j].connection = newNodeGrpc
    THEN [hasConflict |-> TRUE, message |-> <<"GRPC", "conflicts", "with", "connection">>]
    ELSE IF \E j \in 1..Len(nodes) : nodes[j].grpc = newNodeConnection
    THEN [hasConflict |-> TRUE, message |-> <<"Connection", "conflicts", "with", "GRPC">>]
    ELSE [hasConflict |-> FALSE, message |-> <<>>]

\* handleAddNode: nothing for an empty form, the alert of a conflict, or the
\* new node appended, with no links, sources or sinks
AddedNode(nodes, newNodeConnection, newNodeGrpc) ==
    LET conflicts == PortConflicts(nodes, newNodeConnection, newNodeGrpc)
    IN IF newNodeConnection = EmptyStr \/ newNodeGrpc = EmptyStr
       THEN [case |-> "empty", alert |-> NoAlert, nodes |-> nodes]
       ELSE IF conflicts.hasConflict
       THEN [case |-> "conflict", alert |-> Some(conflicts.message), nodes |-> nodes]
       ELSE [case |-> "valid", alert |-> NoAlert,
             nodes |-> Append(nodes, [NewNode(newNodeConnection) EXCEPT
                                         !.grpc = newNodeGrpc])]

\* what the add-node form holds when Add is pressed
FormConnections == {EmptyStr, ConnC, ConnG}
FormGrpcs == {ConnG}

\* the Add button of the add-node form
AddNodeRequest ==
    /\ Len(topology.nodes) < MaxNodes
    /\ \E newNodeConnection \in FormConnections, newNodeGrpc \in FormGrpcs :
           LET r == AddedNode(topology.nodes, newNodeConnection, newNodeGrpc)
           IN /\ topology' = [topology EXCEPT !.nodes = r.nodes]
              /\ alerted' = r.alert
              /\ editor' = AfterRender(topology', editor)
              /\ lastOp' = Op("addNode", r.case, newNodeConnection, newNodeGrpc, "node",
                              0, Absent)
    /\ UNCHANGED <<selectedNodeInfo, selectedNode, timers>>

\* handlePropertyChange('connection', value) with a selectedNode: every node
\* of selectedNode's connection gets the value; its links, and the links of
\* the other nodes, stay
ChangedConnection(nodes, node, value) ==
    [j \in 1..Len(nodes) |->
        IF nodes[j].connection = node.connection
        THEN [nodes[j] EXCEPT !.connection = value]
        ELSE nodes[j]]

\* what the Connection input of the panel is changed to
TypedConnections == {ConnC}

\* the Connection input of the panel of a processing node is changed: the
\* node is looked up again by the connection selectedNode has, and
\* selectedNode is replaced only when one is found
ChangeConnection ==
    /\ Presented(topology, selectedNode, selectedNodeInfo).view = "main"
    /\ \E value \in TypedConnections \ {Get(selectedNode).connection} :
           LET updatedNodes == ChangedConnection(topology.nodes, Get(selectedNode), value)
           IN /\ topology' = [topology EXCEPT !.nodes = updatedNodes]
              /\ selectedNode' = IF Exists(updatedNodes, Get(selectedNode).connection)
                                 THEN FoundNode(updatedNodes, Get(selectedNode).connection)
                                 ELSE selectedNode
              /\ lastOp' = Op("changeConnection", "valid", Get(selectedNode).connection,
                              value, "main", 0, Absent)
    /\ editor' = AfterRender(topology', editor)
    /\ alerted' = NoAlert
    /\ UNCHANGED <<selectedNodeInfo, timers>>

\* forceLink(links).id(d => d.id) looks both ends of every link up among the
\* simulation's nodes and throws "node not found" for an id none of them has
LayoutThrows(g) ==
    \E k \in 1..Len(g.links) :
        \/ \A j \in 1..Len(g.nodes) : g.nodes[j].id # g.links[k].source
        \/ \A j \in 1..Len(g.nodes) : g.nodes[j].id # g.links[k].target

\* the component tree is mounted: no render has thrown
Standing == Alive /\ ~LayoutThrows(graph)

IntegrityAddNode == Standing /\ AddNodeRequest /\ Rendered
IntegrityDeleteNode == Standing /\ ShownDeleteNode
IntegrityAddLink == Standing /\ TotalLinks(topology.nodes) < MaxPeers /\ ShownAddLink
IntegrityDeleteLink == Standing /\ ShownDeleteLink
IntegrityChangeConnection == Standing /\ ChangeConnection /\ Rendered
IntegrityClickEntity == Standing /\ ClickEntity
IntegrityClickCanvas == Standing /\ ClickCanvas

\* two nodes, the first with a sink, drawn; nothing selected
InitIntegrity ==
    /\ topology = [logical |-> Absent,
                   nodes |-> <<[NewNode(ConnA) EXCEPT !.sinks = Some(<<SinkS1>>)],
                              NewNode(ConnB)>>]
    /\ selectedNodeInfo = NoSelection
    /\ selectedNode = NoNode
    /\ editor = Unmounted
    /\ timers = NoTimers
    /\ graph = Regenerated(topology, NoGraph)
    /\ drag = NoDrag
    /\ alerted = NoAlert
    /\ lastOp = NoOp

NextIntegrity ==
    \/ IntegrityAddNode
    \/ IntegrityDeleteNode
    \/ IntegrityAddLink
    \/ IntegrityDeleteLink
    \/ IntegrityChangeConnection
    \/ IntegrityClickEntity
    \/ IntegrityClickCanvas

SpecIntegrity == InitIntegrity /\ [][NextIntegrity]_vars

----------------------------------------------------------------------------
(* Claims about references between nodes, checked under SpecIntegrity *)

\* every entry of every node's downstreams and upstreams is the connection of
\* a node
PeersExist(T) ==
    \A j \in 1..Len(T.nodes), type \in LinkTypes :
        \A k \in 1..Len(Items(Peers(T.nodes[j], type))) :
            Exists(T.nodes, Items(Peers(T.nodes[j], type))[k])

\* C33: every entry of every node's downstreams and upstreams names an
\* existing node, after any sequence of add-node, delete-node, add-link,
\* delete-link and connection edits; every peer link of the render has both
\* ends among the render's entities, so the layout gets no link to a missing
\* entity.
C33_PeerLinksNameNodes == PeersExist(topology) /\ ~LayoutThrows(graph)

\* C33, for the handlers that keep the references: add-node, add-link and
\* delete-link
C33_AddsAndDeleteLinkKeepReferences ==
    [][(lastOp'.op \in {"addNode", "addLink", "deleteLink"} /\ PeersExist(topology)) =>
           PeersExist(topology')]_vars

\* C33, for the edit of a connection
C33_ConnectionEditKeepsReferences ==
    [][(lastOp'.op = "changeConnection" /\ PeersExist(topology)) =>
           PeersExist(topology')]_vars

\* C33's failing case: a node that another names as peer was renamed, and the
\* layout was given the link to the old name
C33_RenamedPeerIsMissing ==
    /\ lastOp.op = "changeConnection"
    /\ ~PeersExist(topology)
    /\ LayoutThrows(graph)

----------------------------------------------------------------------------
(* Claims about what the selection refers to, checked under SpecIntegrity *)

\* the selection names a node of the topology, or a source or sink that its
\* owner in the topology has (at the position the selection carries, if any)
SelectionRefers(T, info) ==
    IF info.type = "main" THEN Exists(T.nodes, info.nodeId)
    ELSE /\ Exists(T.nodes, info.parentId)
         /\ LET list == ListAt(T.nodes, info.parentId, info.type)
            IN IF info.index = NoIndex
               THEN FindIndex(list, info.type, info.name) # -1
               ELSE /\ info.index < Len(list)
                    /\ EntityName(info.type, list[info.index + 1]) = info.name

\* C34: in every reachable state a selection other than none refers to an
\* entity of the current model; after a node, source or sink is deleted or a
\* connection edited, neither the selection nor the held data of the selected
\* node refers to the removed entity, to an entity of a removed node or to
\* the old connection.
C34_SelectionRefersToModel ==
    /\ IsPresent(selectedNodeInfo) => SelectionRefers(topology, Get(selectedNodeInfo))
    /\ IsPresent(selectedNode) => Exists(topology.nodes, Get(selectedNode).connection)

\* C34, for the steps that select while the render is the one of the current
\* topology (it stays the old one when the last node is deleted): what a
\* click selects is in the model
C34_ClickSelectsFromModel ==
    [][(lastOp'.op \in {"click", "clickCanvas"} /\ Len(topology.nodes) > 0) =>
           /\ IsPresent(selectedNodeInfo') =>
                  SelectionRefers(topology', Get(selectedNodeInfo'))
           /\ IsPresent(selectedNode') =>
                  Exists(topology'.nodes, Get(selectedNode').connection)]_vars

\* C34, for delete-node
C34_DeleteNodeKeepsSelectionInModel ==
    [][(lastOp'.op = "deleteNode" /\ C34_SelectionRefersToModel) =>
           C34_SelectionRefersToModel']_vars

\* C34, for the edit of a connection
C34_ConnectionEditKeepsSelectionInModel ==
    [][(lastOp'.op = "changeConnection" /\ C34_SelectionRefersToModel) =>
           C34_SelectionRefersToModel']_vars

\* C34's failing case: the sink of a node was clicked, the node deleted, and
\* the sink is still the selection
C34_SinkOfDeletedNodeIsSelected ==
    /\ lastOp.op = "deleteNode" /\ lastOp.case = "valid"
    /\ IsPresent(selectedNodeInfo)
    /\ Get(selectedNodeInfo).type = "sink"
    /\ Get(selectedNodeInfo).parentId = lastOp.a
    /\ ~Exists(topology.nodes, lastOp.a)

\* C34, for the removal of the clicked source or sink itself (checked under
\* SpecSelect): the selection is cleared
C34_RemovedClickedEntityIsDeselected ==
    [][(/\ lastOp'.op = "remove" /\ lastOp'.case = "valid"
        /\ IsPresent(selectedNodeInfo)
        /\ Get(selectedNodeInfo).type = lastOp'.kind
        /\ Get(selectedNodeInfo).parentId = lastOp'.a
        /\ Get(selectedNodeInfo).index = lastOp'.index) =>
           selectedNodeInfo' = NoSelection]_vars

----------------------------------------------------------------------------
(* Claims about the connections of the nodes, checked under SpecIntegrity *)

\* no two nodes have the same connection
DistinctConnections(T) ==
    \A j, k \in 1..Len(T.nodes) :
        T.nodes[j].connection = T.nodes[k].connection => j = k

\* C35: the connections of the processing nodes stay pairwise distinct;
\* add-node reports a conflict and leaves the topology as it is when the new
\* connection is used by a node already, and no other mutator, the edit of a
\* node's connection included, makes two nodes of one connection.
C35_ConnectionsStayDistinct == DistinctConnections(topology)

\* C35, for add-node: a form that is not empty either appends a node of a
\* connection no node had, or raises an alert and leaves the topology
C35_AddNodeRejectsUsedConnection ==
    [][(lastOp'.op = "addNode" /\ lastOp'.case # "empty") =>
           \/ /\ topology' = topology
              /\ IsPresent(alerted')
           \/ /\ Len(topology'.nodes) = Len(topology.nodes) + 1
              /\ SubSeq(topology'.nodes, 1, Len(topology.nodes)) = topology.nodes
              /\ ~Exists(topology.nodes, topology'.nodes[Len(topology'.nodes)].connection)
              /\ alerted' = NoAlert]_vars

\* C35, for every handler but the edit of a connection
C35_OthersKeepConnectionsDistinct ==
    [][(lastOp'.op # "changeConnection" /\ DistinctConnections(topology)) =>
           DistinctConnections(topology')]_vars

\* C35's failing case: the connection of a node was changed to the one of
\* another node
C35_RenamedToUsedConnection ==
    /\ lastOp.op = "changeConnection"
    /\ ~DistinctConnections(topology)

\* add-node has turned down a connection that a node has
C35_AddNodeHasRejected ==
    /\ lastOp.op = "addNode" /\ lastOp.case = "conflict"
    /\ alerted = Some(<<"Connection", "already", "exists">>)

----------------------------------------------------------------------------
(* Claims about the text of a clean editor, checked under SpecEditor *)

\* the editor is shown, valid and not dirty
Clean == editor.mounted /\ EditorState(editor) = "clean"

\* C36: whenever the editor is clean and the pending renders have been
\* applied, the text of the editor is the serialization of the current model,
\* and so is the stored last known-valid text.
C36_CleanEditorShowsModel ==
    Clean => /\ editor.yamlText = Dump(topology)
             /\ editor.lastValidYaml = Dump(topology)

\* C36, for the text alone
C36_CleanTextIsModel == Clean => editor.yamlText = Dump(topology)

\* C36, for every step but the firing of a timer that holds another text than
\* the one shown (one that has outlived an import, export or reset)
C36_OnlyStaleTimerBreaksIt ==
    [][(/\ C36_CleanEditorShowsModel
        /\ ~(lastOp'.op = "timer" /\ FiredTimer.text # editor.yamlText)) =>
           C36_CleanEditorShowsModel']_vars

\* C36's failing case: the editor is clean, its text is the serialization of
\* the model and the last known-valid text is a typed one
C36_LastValidIsTyped ==
    /\ Clean
    /\ editor.yamlText = Dump(topology)
    /\ editor.lastValidYaml.kind = "hand"

----------------------------------------------------------------------------
(* Claims about what a reassignment leaves alone, checked under Spec *)

\* two nodes differ in their list of the kind at most
SameBut(kind, node, other) == SetList(node, kind, Absent) = SetList(other, kind, Absent)

\* the schemas, the number and order of the nodes and, of every node, all but
\* the list of the kind are as before the step
ReassignFrame ==
    /\ topology'.logical = topology.logical
    /\ Len(topology'.nodes) = Len(topology.nodes)
    /\ \A j \in 1..Len(topology.nodes) :
           SameBut(lastOp'.kind, topology.nodes[j], topology'.nodes[j])

\* every node but the owner and the target of the step is as before
OthersKept ==
    \A j \in 1..Len(topology.nodes) :
        topology.nodes[j].connection \notin {lastOp'.a, lastOp'.b} =>
            topology'.nodes[j] = topology.nodes[j]

\* C37: a reassignment of a sink (of a source) changes only the sinks (the
\* physical) lists of the owner and of the target; the lists of the other
\* kind, the links, connection, grpc and capacity of every node, all other
\* nodes, the order of the nodes and the logical schemas are unchanged.
C37_ReassignChangesOwnersListsOnly ==
    [][(lastOp'.op = "reassign") =>
           /\ ReassignFrame
           /\ lastOp'.case = "valid" => OthersKept]_vars

\* C37, without the other nodes: what holds of every reassignment
C37_ReassignChangesListsOfKindOnly ==
    [][(lastOp'.op = "reassign") => ReassignFrame]_vars

\* C37, for owners whose address has no '-'
C37_ReassignChangesOwnersListsOnlyPlainOwner ==
    [][(lastOp'.op = "reassign" /\ ~Includes(lastOp'.a, Dash)) =>
           /\ ReassignFrame
           /\ lastOp'.case = "valid" => OthersKept]_vars

\* C37's case: a sink was moved between two nodes that both own sources, and
\* a third node owns a sink
C37_SinkMovedBesideSources ==
    /\ lastOp.op = "reassign" /\ lastOp.case = "valid" /\ lastOp.kind = "sink"
    /\ ~Includes(lastOp.a, Dash)
    /\ \E j \in 1..Len(topology.nodes) :
           /\ topology.nodes[j].connection \notin {lastOp.a, lastOp.b}
           /\ IsPresent(topology.nodes[j].sinks)
    /\ IsPresent(topology.nodes[FindNode(topology.nodes, lastOp.b)].physical)

----------------------------------------------------------------------------
(* The gesture on every kind of render entity *)

\* dragstarted on a processing node of the render: the handlers of the drag
\* are attached to every entity alike
DragStartMain ==
    /\ Alive
    /\ drag = NoDrag
    /\ \E j \in {k \in 1..Len(graph.nodes) : graph.nodes[k].nodeType = "main"} :
           drag' = Some([d |-> graph.nodes[j], nodes |-> graph.nodes,
                         pos |-> graph.nodes[j].pos, fpos |-> graph.nodes[j].pos,
                         live |-> TRUE])
    /\ lastOp' = Op("dragStart", "done", EmptyStr, EmptyStr, "main", 0, Absent)
    /\ alerted' = NoAlert
    /\ UNCHANGED <<topology, selectedNodeInfo, selectedNode, editor, timers, graph>>

\* nodes a and a-b own a sink each; the graph is shown
InitGesture ==
    /\ topology = [logical |-> Absent,
                   nodes |-> [InitNodes EXCEPT
                                 ![1] = SetList(@, "sink", Some(<<SinkS1>>)),
                                 ![3] = SetList(@, "sink", Some(<<SinkS2>>))]]
    /\ selectedNodeInfo = NoSelection
    /\ selectedNode = NoNode
    /\ editor = Unmounted
    /\ timers = NoTimers
    /\ graph = Regenerated(topology, NoGraph)
    /\ drag = NoDrag
    /\ alerted = NoAlert
    /\ lastOp = NoOp

NextGesture ==
    \/ DragStart
    \/ DragStartMain
    \/ Dragged
    \/ SimTick
    \/ DragEnd

SpecGesture == InitGesture /\ [][NextGesture]_vars

----------------------------------------------------------------------------
(* Claims about the request of a release, checked under SpecGesture *)

\* the request dragended builds for the gesture in progress, if any
ReleaseRequest == Request(Get(drag).d, Get(drag).pos, Get(drag).nodes)

\* the step releases the dragged entity
Releases == IsPresent(drag) /\ lastOp'.op = "dragEnd"

\* the release changes the model as the handling of one request does, or not
\* at all when there is none
AtMostOneRequest ==
    IF IsPresent(ReleaseRequest)
    THEN topology'.nodes = Reassigned(topology.nodes, Get(ReleaseRequest).sourceNodeId,
                                      Get(ReleaseRequest).targetNodeId,
                                      Get(ReleaseRequest).nodeType).nodes
    ELSE topology' = topology

\* the release of a processing node has no request and leaves the model
MainReleaseIsSilent ==
    Get(drag).d.nodeType = "main" =>
        /\ ~IsPresent(ReleaseRequest)
        /\ lastOp'.case = "none"
        /\ topology' = topology

\* the target of the request is not the node the dragged entity is drawn under
TargetIsNotOwner ==
    IsPresent(ReleaseRequest) =>
        Get(ReleaseRequest).targetNodeId # Get(Get(drag).d.parentId)

\* C38: a release emits at most one reassignment request; the release of a
\* processing node emits none and never changes the model; an emitted request
\* never names the current owner of the dragged entity as its target.
C38_ReleaseRequestsOnceAndNotOwner ==
    [][Releases => AtMostOneRequest /\ MainReleaseIsSilent /\ TargetIsNotOwner]_vars

\* C38, without the target: at most one request, none for a processing node
C38_ReleaseRequestsOnce ==
    [][Releases => AtMostOneRequest /\ MainReleaseIsSilent]_vars

\* C38, for the target when the owner's address has no '-'
C38_TargetIsNotPlainOwner ==
    [][(/\ Releases
        /\ Get(drag).d.nodeType \in Kinds
        /\ ~Includes(Get(Get(drag).d.parentId), Dash)) => TargetIsNotOwner]_vars

\* C38's failing case: a sink of node a-b was released over a-b and the
\* request named a-b as the target
C38_OwnerWasTarget ==
    /\ IsPresent(drag)
    /\ Get(drag).d.nodeType = "sink"
    /\ Get(drag).d.parentId = Some(ConnAB)
    /\ IsPresent(ReleaseRequest)
    /\ Get(ReleaseRequest).targetNodeId = ConnAB

\* a processing node is held over another one
C38_MainHeldOverNode ==
    /\ IsPresent(drag)
    /\ Get(drag).d.nodeType = "main"
    /\ \E j \in 1..Len(Get(drag).nodes) :
           /\ Get(drag).nodes[j].nodeType = "main"
           /\ Get(drag).nodes[j].id # Get(drag).d.id
           /\ Within(Get(drag).nodes[j].pos, Get(drag).pos)

----------------------------------------------------------------------------
(* Claims about the id a request carries, checked under SpecGesture *)

\* the owner and the index the handler decodes from the id are the given ones
DecodesTo(sourceNodeId, owner, index) ==
    /\ DecodedOwner(sourceNodeId) = owner
    /\ DecodedIndex(sourceNodeId) = index

\* C39: the entity id a reassignment request carries (owner connection, kind
\* and index joined by '-') is decoded by the handler to the same owner and
\* the same index for every owner connection, those containing '-' included,
\* so the request moves the dragged entity whatever its owner's address.
C39_RequestDecodesToOwnerAndIndex ==
    [][(Releases /\ IsPresent(ReleaseRequest)) =>
           /\ DecodesTo(Get(ReleaseRequest).sourceNodeId,
                        Get(Get(drag).d.parentId), Get(Get(drag).d.parentIndex))
           /\ topology'.nodes =
                  MovedNodes(topology.nodes,
                             FindNode(topology.nodes, Get(Get(drag).d.parentId)),
                             FindNode(topology.nodes, Get(ReleaseRequest).targetNodeId),
                             Get(drag).d.nodeType,
                             Get(Get(drag).d.parentIndex))]_vars

\* C39, for owners whose address has no '-'
C39_RequestDecodesToPlainOwnerAndIndex ==
    [][(/\ Releases /\ IsPresent(ReleaseRequest)
        /\ ~Includes(Get(Get(drag).d.parentId), Dash)) =>
           /\ DecodesTo(Get(ReleaseRequest).sourceNodeId,
                        Get(Get(drag).d.parentId), Get(Get(drag).d.parentIndex))
           /\ topology'.nodes =
                  MovedNodes(topology.nodes,
                             FindNode(topology.nodes, Get(Get(drag).d.parentId)),
                             FindNode(topology.nodes, Get(ReleaseRequest).targetNodeId),
                             Get(drag).d.nodeType,
                             Get(Get(drag).d.parentIndex))]_vars

\* C39, for the id the render gives an entity (checked under Spec, where the
\* event carries that id): the handler decodes it to the owner and the index
C39_EntityIdDecodes ==
    [][ReassignIsValid =>
           DecodesTo(EntityId(lastOp'.a, lastOp'.kind, lastOp'.index),
                     lastOp'.a, lastOp'.index)]_vars

\* C39, for the id of an entity whose owner's address has no '-' (under Spec)
C39_EntityIdOfPlainOwnerDecodes ==
    [][(ReassignIsValid /\ ~Includes(lastOp'.a, Dash)) =>
           DecodesTo(EntityId(lastOp'.a, lastOp'.kind, lastOp'.index),
                     lastOp'.a, lastOp'.index)]_vars

\* C39's failing case: the sink of node a-b was released over node b, and it
\* is the sink of node a that b got
C39_SinkOfOtherNodeMoved ==
    /\ lastOp.op = "dragEnd" /\ lastOp.case = "request"
    /\ ListAt(topology.nodes, ConnAB, "sink") = <<SinkS2>>
    /\ ListAt(topology.nodes, ConnB, "sink") = <<SinkS1>>

====
